---- MODULE Spec2Model ----
(***************************************************************************)
(* TravelTimePredictor of LONGHORN-FettiAI (src/utils/travel_time_         *)
(* predictor.py) as a state machine.                                       *)
(*                                                                         *)
(* Conventions of the model                                                *)
(*  - a Python str is a sequence of one-character strings, so substring    *)
(*    tests, lower() and strptime work on the characters;                  *)
(*  - None / NaN is the value None (a one-element tuple that is not a      *)
(*    character sequence);                                                 *)
(*  - floats are fixed point: coordinates in 1/1000 degree, distances in   *)
(*    1/1000 mile, durations in 1/1000 minute;                             *)
(*  - the fitted RandomForestRegressor is the training set it was fitted   *)
(*    on; its prediction is any value between the smallest and the largest *)
(*    training label (a forest averages leaf means of the labels).         *)
(***************************************************************************)
EXTENDS Integers, Sequences, FiniteSets, TLC

\* is_trained, location_encoder, model: the fields of the TravelTimePredictor
\* calls: the predict_departure_time calls in flight, one per caller
\* data, processed_data: the fields of the FetiiDataProcessor
\* last: the last operation, its arguments and its outcome
VARIABLES is_trained, location_encoder, model, calls, data, processed_data, last

vars == <<is_trained, location_encoder, model, calls, data, processed_data, last>>

-----------------------------------------------------------------------------
(* Bounds *)

\* longest training corpus (rows of the DataFrame given to train)
MaxRows == 2

\* largest group size asked for
MaxGroupSize == 3

-----------------------------------------------------------------------------
(* Characters and strings *)

None == <<"None">>

Digits == <<"0","1","2","3","4","5","6","7","8","9">>

UpperCase == <<"A","B","C","D","E","F","G","H","I","J","K","L","M","N","O","P","Q","R","S","T","U","V","W","X","Y","Z">>

LowerCase == <<"a","b","c","d","e","f","g","h","i","j","k","l","m","n","o","p","q","r","s","t","u","v","w","x","y","z">>

IsDigit(c) == \E i \in 1..10 : Digits[i] = c

DigitValue(c) == (CHOOSE i \in 1..10 : Digits[i] = c) - 1

LowerOf == [c \in {UpperCase[i] : i \in 1..26} |->
              LowerCase[CHOOSE i \in 1..26 : UpperCase[i] = c]]

LowerChar(c) == IF c \in DOMAIN LowerOf THEN LowerOf[c] ELSE c

\* str.lower()
lower(s) == [i \in 1..Len(s) |-> LowerChar(s[i])] \o <<>>

\* needle in hay
Contains(hay, needle) ==
    \E i \in 1..(Len(hay) - Len(needle) + 1) :
        \A k \in 1..Len(needle) : hay[i + k - 1] = needle[k]

Abs(x) == IF x < 0 THEN -x ELSE x

Min(S) == CHOOSE x \in S : \A y \in S : x <= y

Max(S) == CHOOSE x \in S : \A y \in S : x >= y

-----------------------------------------------------------------------------
(* _extract_zone: the keywords *)

kw_airport == <<"a","i","r","p","o","r","t">>
kw_aus == <<"a","u","s">>
kw_university == <<"u","n","i","v","e","r","s","i","t","y">>
kw_campus == <<"c","a","m","p","u","s">>
kw_23rd == <<"2","3","r","d">>
kw_west_campus == <<"w","e","s","t"," ","c","a","m","p","u","s">>
kw_w_23rd == <<"w"," ","2","3","r","d">>
kw_downtown == <<"d","o","w","n","t","o","w","n">>
kw_6th == <<"6","t","h">>
kw_market == <<"m","a","r","k","e","t">>
kw_east == <<"e","a","s","t">>
kw_e_6th == <<"e"," ","6","t","h">>
kw_south == <<"s","o","u","t","h">>
kw_s_congress == <<"s"," ","c","o","n","g","r","e","s","s">>
kw_north == <<"n","o","r","t","h">>
kw_n_university == <<"n"," ","u","n","i","v","e","r","s","i","t","y">>

\* the classifier as it would be with the University rule tried before the
\* Airport rule
extract_zone_university_first(address) ==
    IF address = None THEN "Unknown"
    ELSE LET address_lower == lower(address) IN
         IF Contains(address_lower, kw_university)
               \/ Contains(address_lower, kw_campus)
               \/ Contains(address_lower, kw_23rd)
         THEN "University"
         ELSE IF Contains(address_lower, kw_airport) \/ Contains(address_lower, kw_aus)
         THEN "Airport"
         ELSE IF Contains(address_lower, kw_west_campus)
                 \/ Contains(address_lower, kw_w_23rd)
         THEN "West Campus"
         ELSE IF Contains(address_lower, kw_downtown)
                 \/ Contains(address_lower, kw_6th)
                 \/ Contains(address_lower, kw_market)
         THEN "Downtown"
         ELSE IF Contains(address_lower, kw_east) \/ Contains(address_lower, kw_e_6th)
         THEN "East Austin"
         ELSE IF Contains(address_lower, kw_south)
                 \/ Contains(address_lower, kw_s_congress)
         THEN "South Austin"
         ELSE IF Contains(address_lower, kw_north)
                 \/ Contains(address_lower, kw_n_university)
         THEN "North Austin"
         ELSE "Other"

\* the classifier as it would be with the West Campus rule tried before the
\* University rule
extract_zone_west_campus_first(address) ==
    IF address = None THEN "Unknown"
    ELSE LET address_lower == lower(address) IN
         IF Contains(address_lower, kw_airport) \/ Contains(address_lower, kw_aus)
         THEN "Airport"
         ELSE IF Contains(address_lower, kw_west_campus)
                 \/ Contains(address_lower, kw_w_23rd)
         THEN "West Campus"
         ELSE IF Contains(address_lower, kw_university)
                 \/ Contains(address_lower, kw_campus)
                 \/ Contains(address_lower, kw_23rd)
         THEN "University"
         ELSE IF Contains(address_lower, kw_downtown)
                 \/ Contains(address_lower, kw_6th)
                 \/ Contains(address_lower, kw_market)
         THEN "Downtown"
         ELSE IF Contains(address_lower, kw_east) \/ Contains(address_lower, kw_e_6th)
         THEN "East Austin"
         ELSE IF Contains(address_lower, kw_south)
                 \/ Contains(address_lower, kw_s_congress)
         THEN "South Austin"
         ELSE IF Contains(address_lower, kw_north)
                 \/ Contains(address_lower, kw_n_university)
         THEN "North Austin"
         ELSE "Other"

extract_zone(address) ==
    IF address = None THEN "Unknown"
    ELSE LET address_lower == lower(address) IN
         IF Contains(address_lower, kw_airport) \/ Contains(address_lower, kw_aus)
         THEN "Airport"
         ELSE IF Contains(address_lower, kw_university)
                 \/ Contains(address_lower, kw_campus)
                 \/ Contains(address_lower, kw_23rd)
         THEN "University"
         ELSE IF Contains(address_lower, kw_west_campus)
                 \/ Contains(address_lower, kw_w_23rd)
         THEN "West Campus"
         ELSE IF Contains(address_lower, kw_downtown)
                 \/ Contains(address_lower, kw_6th)
                 \/ Contains(address_lower, kw_market)
         THEN "Downtown"
         ELSE IF Contains(address_lower, kw_east) \/ Contains(address_lower, kw_e_6th)
         THEN "East Austin"
         ELSE IF Contains(address_lower, kw_south)
                 \/ Contains(address_lower, kw_s_congress)
         THEN "South Austin"
         ELSE IF Contains(address_lower, kw_north)
                 \/ Contains(address_lower, kw_n_university)
         THEN "North Austin"
         ELSE "Other"

-----------------------------------------------------------------------------
(* datetime.strptime for the two formats of predict_departure_time.         *)
(* %H is the regex 2[0-3]|[0-1]\d|\d and %M is [0-5]\d|\d; the pattern is    *)
(* matched at the start of the string, alternatives in that order with       *)
(* backtracking, and text left after the match is an error.                  *)

NoDatetime == [weekday |-> -1, hour |-> -1, minute |-> -1]

Separator(fmt) == IF fmt = "%H:%M" THEN <<":">> ELSE <<>>

TwoDigitHour(s) ==
    /\ 2 <= Len(s)
    /\ \/ s[1] = "2" /\ s[2] \in {"0","1","2","3"}
       \/ s[1] \in {"0","1"} /\ IsDigit(s[2])

HourLengths(s) ==
    (IF TwoDigitHour(s) THEN <<2>> ELSE <<>>)
        \o (IF 1 <= Len(s) /\ IsDigit(s[1]) THEN <<1>> ELSE <<>>)

TwoDigitMinute(s, j) ==
    /\ j + 1 <= Len(s)
    /\ s[j] \in {"0","1","2","3","4","5"}
    /\ IsDigit(s[j + 1])

MinuteLengths(s, j) ==
    (IF TwoDigitMinute(s, j) THEN <<2>> ELSE <<>>)
        \o (IF j <= Len(s) /\ IsDigit(s[j]) THEN <<1>> ELSE <<>>)

SeparatorAt(s, i, sep) ==
    /\ i + Len(sep) - 1 <= Len(s)
    /\ SubSeq(s, i, i + Len(sep) - 1) = sep

Number(s, i, n) ==
    IF n = 1 THEN DigitValue(s[i])
    ELSE 10 * DigitValue(s[i]) + DigitValue(s[i + 1])

\* the hour lengths after which the rest of the pattern matches, best first
HourChoices(s, sep) ==
    SelectSeq(HourLengths(s),
              LAMBDA hl : /\ SeparatorAt(s, hl + 1, sep)
                          /\ MinuteLengths(s, hl + 1 + Len(sep)) # <<>>)

strptime(s, fmt) ==
    LET sep == Separator(fmt)
        hcs == HourChoices(s, sep)
    IN  IF hcs = <<>>
        THEN [raised |-> "ValueError", dt |-> NoDatetime]
        ELSE LET hl  == Head(hcs)
                 j   == hl + 1 + Len(sep)
                 ml  == Head(MinuteLengths(s, j))
                 end == hl + Len(sep) + ml
             IN  IF end # Len(s)
                 THEN [raised |-> "ValueError", dt |-> NoDatetime]
                 ELSE [raised |-> "none",
                       dt |-> [weekday |-> 0,
                               hour    |-> Number(s, 1, hl),
                               minute  |-> Number(s, j, ml)]]

\* the parse as it would be if a time that fits neither format fell back to
\* midnight instead of raising
parse_arrival_time_guessing(arrival_time) ==
    IF arrival_time.type = "str"
    THEN LET first  == strptime(arrival_time.value, "%H:%M")
             second == strptime(arrival_time.value, "%H%M")
         IN  IF first.raised = "none" THEN first
             ELSE IF second.raised = "none" THEN second
             ELSE [raised |-> "none", dt |-> [weekday |-> 0, hour |-> 0, minute |-> 0]]
    ELSE [raised |-> "none", dt |-> arrival_time.value]

\* lines 60-67 as they would be if a string arrival time were put on a
\* Saturday
parse_arrival_time_on_saturday(arrival_time) ==
    IF arrival_time.type = "str"
    THEN LET first == strptime(arrival_time.value, "%H:%M")
             r == IF first.raised = "none"
                  THEN first
                  ELSE strptime(arrival_time.value, "%H%M")
         IN  IF r.raised = "none"
             THEN [r EXCEPT !.dt = [r.dt EXCEPT !.weekday = 5]]
             ELSE r
    ELSE [raised |-> "none", dt |-> arrival_time.value]

\* lines 60-67: a str is parsed as %H:%M and, failing that, as %H%M;
\* anything else is taken to be a datetime
parse_arrival_time(arrival_time) ==
    IF arrival_time.type = "str"
    THEN LET first == strptime(arrival_time.value, "%H:%M")
         IN  IF first.raised = "none" THEN first
             ELSE strptime(arrival_time.value, "%H%M")
    ELSE [raised |-> "none", dt |-> arrival_time.value]

-----------------------------------------------------------------------------
(* The heuristics *)

\* the buffer as it would be with the rush windows ending an hour early
calculate_buffer_time_short_rush(arrival_time, group_size) ==
    LET hour         == arrival_time.hour
        rush         == (7 <= hour /\ hour < 9) \/ (17 <= hour /\ hour < 19)
        base_buffer  == 10 + (IF rush THEN 15 ELSE 0)
        group_buffer == (group_size - 1) * 2
        weekend      == IF arrival_time.weekday >= 5 THEN 5 ELSE 0
    IN  base_buffer + weekend + group_buffer

\* the buffer as it would be if every further rider took two minutes off
calculate_buffer_time_group_discount(arrival_time, group_size) ==
    LET hour         == arrival_time.hour
        rush         == (7 <= hour /\ hour <= 9) \/ (17 <= hour /\ hour <= 19)
        base_buffer  == 10 + (IF rush THEN 15 ELSE 0)
        group_buffer == (1 - group_size) * 2
        weekend      == IF arrival_time.weekday >= 5 THEN 5 ELSE 0
    IN  base_buffer + weekend + group_buffer

\* the buffer as it would be with the weekend addition on every day
calculate_buffer_time_every_day(arrival_time, group_size) ==
    LET hour         == arrival_time.hour
        rush         == (7 <= hour /\ hour <= 9) \/ (17 <= hour /\ hour <= 19)
        base_buffer  == 10 + (IF rush THEN 15 ELSE 0)
        group_buffer == (group_size - 1) * 2
        weekend      == IF arrival_time.weekday >= 0 THEN 5 ELSE 0
    IN  base_buffer + weekend + group_buffer

\* the buffer as it would be with two minutes for every rider, the first too
calculate_buffer_time_per_rider(arrival_time, group_size) ==
    LET hour         == arrival_time.hour
        rush         == (7 <= hour /\ hour <= 9) \/ (17 <= hour /\ hour <= 19)
        base_buffer  == 10 + (IF rush THEN 15 ELSE 0)
        group_buffer == group_size * 2
        weekend      == IF arrival_time.weekday >= 5 THEN 5 ELSE 0
    IN  base_buffer + weekend + group_buffer

calculate_buffer_time(arrival_time, group_size) ==
    LET hour         == arrival_time.hour
        rush         == (7 <= hour /\ hour <= 9) \/ (17 <= hour /\ hour <= 19)
        base_buffer  == 10 + (IF rush THEN 15 ELSE 0)
        group_buffer == (group_size - 1) * 2
        weekend      == IF arrival_time.weekday >= 5 THEN 5 ELSE 0
    IN  base_buffer + weekend + group_buffer

distances ==
    <<"University", "Airport">> :> 12 @@
    <<"West Campus", "Airport">> :> 13 @@
    <<"Downtown", "Airport">> :> 8 @@
    <<"East Austin", "Airport">> :> 10 @@
    <<"South Austin", "Airport">> :> 6 @@
    <<"North Austin", "Airport">> :> 15 @@
    <<"University", "Downtown">> :> 2 @@
    <<"West Campus", "Downtown">> :> 1 @@
    <<"East Austin", "Downtown">> :> 1 @@
    <<"South Austin", "Downtown">> :> 3 @@
    <<"North Austin", "Downtown">> :> 4

\* the lookup as it would be if only the order (pickup, dropoff) were tried
estimate_distance_from_zones_one_way(pickup_zone, dropoff_zone) ==
    LET key1 == <<pickup_zone, dropoff_zone>>
    IN  IF key1 \in DOMAIN distances THEN distances[key1]
        ELSE 5

estimate_distance_from_zones(pickup_zone, dropoff_zone) ==
    LET key1 == <<pickup_zone, dropoff_zone>>
        key2 == <<dropoff_zone, pickup_zone>>
    IN  IF key1 \in DOMAIN distances THEN distances[key1]
        ELSE IF key2 \in DOMAIN distances THEN distances[key2]
        ELSE 5

\* (|lat_diff| + |lon_diff|) * 69, in 1/1000 mile for 1/1000 degree
estimate_distance(row) ==
    LET lat_diff == Abs(row.lat2 - row.lat1)
        lon_diff == Abs(row.lon2 - row.lon1)
    IN  (lat_diff + lon_diff) * 69

\* the label as it would be without the cap of 45 minutes
trip_duration_uncapped(row) ==
    LET distance == estimate_distance(row)
        raw      == distance * 3 + 15000
    IN  IF raw > 15000 THEN raw ELSE 15000

\* max(15, min(45, distance * 3 + 15)), in 1/1000 minute
trip_duration(row) ==
    LET distance == estimate_distance(row)
        raw      == distance * 3 + 15000
        capped   == IF raw < 45000 THEN raw ELSE 45000
    IN  IF capped > 15000 THEN capped ELSE 15000

calculate_trip_duration(frame) ==
    [i \in 1..Len(frame.rows) |-> trip_duration(frame.rows[i])]

-----------------------------------------------------------------------------
(* sklearn's LabelEncoder: classes_ is the sorted array of the distinct     *)
(* labels it was fitted on, and a label's id is its index there.            *)

\* the zone names in the order Python sorts them
ZoneNamesSorted ==
    <<"Airport", "Downtown", "East Austin", "North Austin", "Other",
      "South Austin", "University", "Unknown", "West Campus">>

Range(seq) == {seq[i] : i \in 1..Len(seq)}

IndexOf(seq, v) == CHOOSE i \in 1..Len(seq) : seq[i] = v

\* np.unique as it would be if it kept the labels in descending order
np_unique_descending(values) ==
    SelectSeq(<<"West Campus", "Unknown", "University", "South Austin", "Other",
                "North Austin", "East Austin", "Downtown", "Airport">>,
              LAMBDA z : z \in Range(values))

np_unique(values) == SelectSeq(ZoneNamesSorted, LAMBDA z : z \in Range(values))

NewLabelEncoder == [fitted |-> FALSE, classes_ |-> <<>>]

\* transform as it would be if it fitted the encoder again (fit_transform)
transform_refitting(encoder, values) ==
    LET refitted == [fitted |-> TRUE, classes_ |-> np_unique(values)]
    IN  [raised |-> "none",
         ids |-> [i \in 1..Len(values) |-> IndexOf(refitted.classes_, values[i]) - 1],
         encoder |-> refitted]

\* LabelEncoder.transform: reads the encoder, never changes it
transform(encoder, values) ==
    IF ~encoder.fitted
    THEN [raised |-> "NotFittedError", ids |-> <<>>, encoder |-> encoder]
    ELSE IF \E i \in 1..Len(values) : values[i] \notin Range(encoder.classes_)
    THEN [raised |-> "ValueError", ids |-> <<>>, encoder |-> encoder]
    ELSE [raised |-> "none",
          ids |-> [i \in 1..Len(values) |-> IndexOf(encoder.classes_, values[i]) - 1],
          encoder |-> encoder]

\* LabelEncoder.fit_transform: replaces classes_, then encodes
fit_transform(encoder, values) ==
    transform([fitted |-> TRUE, classes_ |-> np_unique(values)], values)

-----------------------------------------------------------------------------
(* Training *)

\* a pandas DataFrame of trips; trip_duration is the column train adds
NewFrame(rows) == [rows |-> rows, has_trip_duration |-> FALSE, trip_duration |-> <<>>]

\* RandomForestRegressor(n_estimators=100, random_state=42), not fitted
NewModel == [fitted |-> FALSE, X |-> <<>>, y |-> <<>>]

\* RandomForestRegressor.fit
model_fit(X, y) == [fitted |-> TRUE, X |-> X, y |-> y]

\* lines 18-46. The frame is the caller's object: the new column stays in it
\* whatever happens later. An empty frame gives a feature table without
\* columns, so reading 'pickup_zone' raises KeyError.
prepare_training_data(encoder, frame) ==
    LET durations == calculate_trip_duration(frame)
        df1       == [rows |-> frame.rows, has_trip_duration |-> TRUE,
                      trip_duration |-> durations]
        n         == Len(frame.rows)
        pickup_zone  == [i \in 1..n |-> extract_zone(frame.rows[i].pickup)]
        dropoff_zone == [i \in 1..n |-> extract_zone(frame.rows[i].dropoff)]
    IN  IF n = 0
        THEN [raised |-> "KeyError", encoder |-> encoder, df |-> df1,
              X |-> <<>>, y |-> <<>>]
        ELSE LET pickup_zone_encoded  == fit_transform(encoder, pickup_zone)
                 dropoff_zone_encoded == transform(pickup_zone_encoded.encoder, dropoff_zone)
             IN  IF dropoff_zone_encoded.raised # "none"
                 THEN [raised |-> dropoff_zone_encoded.raised,
                       encoder |-> dropoff_zone_encoded.encoder, df |-> df1,
                       X |-> <<>>, y |-> <<>>]
                 ELSE [raised |-> "none",
                       encoder |-> dropoff_zone_encoded.encoder, df |-> df1,
                       X |-> [i \in 1..n |->
                                <<pickup_zone_encoded.ids[i],
                                  dropoff_zone_encoded.ids[i],
                                  frame.rows[i].hour,
                                  frame.rows[i].weekday,
                                  frame.rows[i].passengers,
                                  estimate_distance(frame.rows[i])>>],
                       y |-> durations]

\* train as it would be if it cleared is_trained before preparing the data
train_resetting(self, frame) ==
    LET p == prepare_training_data(self.location_encoder, frame)
    IN  IF p.raised # "none"
        THEN [raised |-> p.raised, is_trained |-> FALSE,
              location_encoder |-> p.encoder, model |-> self.model, df |-> p.df]
        ELSE [raised |-> "none", is_trained |-> TRUE,
              location_encoder |-> p.encoder, model |-> model_fit(p.X, p.y),
              df |-> p.df]

\* lines 48-53: the predictor's fields and the caller's frame after train(df)
train(self, frame) ==
    LET p == prepare_training_data(self.location_encoder, frame)
    IN  IF p.raised # "none"
        THEN [raised |-> p.raised, is_trained |-> self.is_trained,
              location_encoder |-> p.encoder, model |-> self.model, df |-> p.df]
        ELSE [raised |-> "none", is_trained |-> TRUE,
              location_encoder |-> p.encoder, model |-> model_fit(p.X, p.y),
              df |-> p.df]

-----------------------------------------------------------------------------
(* Prediction *)

\* what a fitted forest can answer: a value between the smallest and the
\* largest label it was fitted on, here those two and the grid values between
DurationGrid == {30500, 38250}

model_predict(m) ==
    IF m.fitted
    THEN {d \in DurationGrid \cup Range(m.y) :
            Min(Range(m.y)) <= d /\ d <= Max(Range(m.y))}
    ELSE {-1}

\* the encoding as it would be with -1 as the id of an unknown zone
encode_zones_minus_one(encoder, pickup_zone, dropoff_zone) ==
    LET p == transform(encoder, <<pickup_zone>>)
    IN  IF p.raised # "none"
        THEN [raised |-> "none", pickup_encoded |-> -1, dropoff_encoded |-> -1,
              encoder |-> p.encoder]
        ELSE LET d == transform(p.encoder, <<dropoff_zone>>)
             IN  IF d.raised # "none"
                 THEN [raised |-> "none", pickup_encoded |-> -1,
                       dropoff_encoded |-> -1, encoder |-> d.encoder]
                 ELSE [raised |-> "none", pickup_encoded |-> p.ids[1],
                       dropoff_encoded |-> d.ids[1], encoder |-> d.encoder]

\* lines 73-80: one try block around both transforms
encode_zones(encoder, pickup_zone, dropoff_zone) ==
    LET p == transform(encoder, <<pickup_zone>>)
    IN  IF p.raised # "none"
        THEN [raised |-> "none", pickup_encoded |-> 0, dropoff_encoded |-> 0,
              encoder |-> p.encoder]
        ELSE LET d == transform(p.encoder, <<dropoff_zone>>)
             IN  IF d.raised # "none"
                 THEN [raised |-> "none", pickup_encoded |-> 0,
                       dropoff_encoded |-> 0, encoder |-> d.encoder]
                 ELSE [raised |-> "none", pickup_encoded |-> p.ids[1],
                       dropoff_encoded |-> d.ids[1], encoder |-> d.encoder]

\* f"{x:.0f}" of x/1000: round to the nearest integer, ties to even
format_0f(x) ==
    LET q == x \div 1000
        r == x % 1000
    IN  IF r < 500 THEN q
        ELSE IF r > 500 THEN q + 1
        ELSE IF q % 2 = 0 THEN q ELSE q + 1

\* the two digits as they would be without the leading zero
two_digits_unpadded(n) ==
    IF n < 10 THEN <<Digits[n + 1]>>
    ELSE <<Digits[(n \div 10) + 1], Digits[(n % 10) + 1]>>

two_digits(n) == <<Digits[(n \div 10) + 1], Digits[(n % 10) + 1]>>

\* strftime as it would be if a departure before midnight were held at 00:00
strftime_HM_held_at_midnight(t) ==
    LET minute_of_day == IF t < 0 THEN 0 ELSE (t \div 1000) % 1440
    IN  two_digits(minute_of_day \div 60) \o <<":">> \o two_digits(minute_of_day % 60)

\* strftime("%H:%M") of the instant t (1/1000 minute from the midnight that
\* starts the arrival day; negative on the day before): seconds are dropped
strftime_HM(t) ==
    LET minute_of_day == (t \div 1000) % 1440
    IN  two_digits(minute_of_day \div 60) \o <<":">> \o two_digits(minute_of_day % 60)

NoPlan ==
    [departure_time |-> <<>>, travel_time |-> -1, buffer_time |-> -1, total_time |-> -1]

\* lines 55-103. forest_output is what self.model.predict answers at line 89.
\* The result holds what the call returned or raised, the values computed on
\* the way, and the predictor's fields after the call.
predict_departure_time(self, pickup_location, dropoff_location, arrival_time, group_size, forest_output) ==
    LET args == [pickup_location |-> pickup_location,
                 dropoff_location |-> dropoff_location,
                 arrival_time |-> arrival_time, group_size |-> group_size]
        parsed == parse_arrival_time(arrival_time)
        arrival_dt == parsed.dt
        pickup_zone == extract_zone(pickup_location)
        dropoff_zone == extract_zone(dropoff_location)
        enc == encode_zones(self.location_encoder, pickup_zone, dropoff_zone)
        distance == estimate_distance_from_zones(pickup_zone, dropoff_zone)
        X_pred == <<enc.pickup_encoded, enc.dropoff_encoded, arrival_dt.hour,
                    arrival_dt.weekday, group_size, distance>>
        predicted_duration == forest_output
        arrival_instant == (arrival_dt.hour * 60 + arrival_dt.minute) * 1000
        buffer_minutes == calculate_buffer_time(arrival_dt, group_size)
        departure_dt == arrival_instant - predicted_duration - buffer_minutes * 1000
    IN  IF ~self.is_trained
        THEN [op |-> "predict", args |-> args, raised |-> "none",
              returned |-> "Model not trained. Please train with data first.",
              was_trained |-> FALSE, classes_ |-> self.location_encoder.classes_,
              arrival_dt |-> NoDatetime, pickup_zone |-> "", dropoff_zone |-> "",
              X_pred |-> <<>>, predicted_duration |-> -1,
              buffer_minutes |-> -1, plan |-> NoPlan, self |-> self]
        ELSE IF parsed.raised # "none"
        THEN [op |-> "predict", args |-> args, raised |-> parsed.raised,
              returned |-> "nothing",
              was_trained |-> TRUE, classes_ |-> self.location_encoder.classes_,
              arrival_dt |-> NoDatetime, pickup_zone |-> "", dropoff_zone |-> "",
              X_pred |-> <<>>, predicted_duration |-> -1,
              buffer_minutes |-> -1, plan |-> NoPlan, self |-> self]
        ELSE [op |-> "predict", args |-> args, raised |-> "none",
              returned |-> "plan",
              was_trained |-> TRUE, classes_ |-> self.location_encoder.classes_,
              arrival_dt |-> arrival_dt, pickup_zone |-> pickup_zone,
              dropoff_zone |-> dropoff_zone, X_pred |-> X_pred,
              predicted_duration |-> predicted_duration,
              buffer_minutes |-> buffer_minutes,
              plan |-> [departure_time |-> strftime_HM(departure_dt),
                        travel_time |-> format_0f(predicted_duration),
                        buffer_time |-> buffer_minutes,
                        total_time |-> format_0f(predicted_duration + buffer_minutes * 1000)],
              self |-> [is_trained |-> self.is_trained,
                        location_encoder |-> enc.encoder,
                        model |-> self.model]]

-----------------------------------------------------------------------------
(* FetiiDataProcessor (src/utils/data_processor.py). A DataFrame is its      *)
(* columns, each the sequence of its cells; a cell is its type and value.    *)

\* self.data or self.processed_data when it is None
NoData == [none |-> TRUE]

DataFrame(columns) == [none |-> FALSE, columns |-> columns]

\* NaN, and NaT in a datetime column
NaN == [type |-> "NaN", value |-> 0]

\* a str that pandas reads as a timestamp with this hour
TimestampText(hour) == [type |-> "str", value |-> hour]

\* a str that pandas cannot read as a timestamp
OtherText == [type |-> "str", value |-> -1]

Timestamp(hour) == [type |-> "datetime", value |-> hour]

Num(x) == [type |-> "number", value |-> x]

\* len(df): every frame has the column trip_id
len(df) == Len(df.columns["trip_id"])

\* df[name] = cells
SetColumn(df, name, cells) ==
    DataFrame([c \in DOMAIN df.columns \cup {name} |->
                  IF c = name THEN cells ELSE df.columns[c]])

\* pd.to_datetime(cell, errors='coerce')
to_datetime(cell) ==
    IF cell.type = "datetime" THEN cell
    ELSE IF cell.type = "str" /\ cell.value >= 0 THEN Timestamp(cell.value)
    ELSE NaN

\* fillna for the column Total Passengers
fillna_1(cell) == IF cell.type = "NaN" THEN Num(1) ELSE cell

\* Series.dt.hour
dt_hour(cell) == IF cell.type = "datetime" THEN Num(cell.value) ELSE NaN

\* pd.cut with bins [0, 2, 4, 6, 8, inf]: the number of the interval
cut(cell) ==
    IF cell.type # "number" \/ cell.value <= 0 THEN NaN
    ELSE [type |-> "category",
          value |-> IF cell.value <= 2 THEN 1
                    ELSE IF cell.value <= 4 THEN 2
                    ELSE IF cell.value <= 6 THEN 3
                    ELSE IF cell.value <= 8 THEN 4
                    ELSE 5]

\* lines 65-101, for the columns the statistics read: self.data after the
\* call. pd.cut compares the cells with the bin edges and raises TypeError
\* for a str; the columns added before it stay in self.data.
create_derived_features(df) ==
    LET with_hour ==
            IF "Trip Date and Time" \in DOMAIN df.columns
            THEN SetColumn(df, "Pickup Hour",
                           [i \in 1..len(df) |->
                               dt_hour(df.columns["Trip Date and Time"][i])])
            ELSE df
    IN  IF "Total Passengers" \notin DOMAIN with_hour.columns
        THEN [raised |-> "none", data |-> with_hour]
        ELSE IF \E i \in 1..len(with_hour) :
                    with_hour.columns["Total Passengers"][i].type = "str"
        THEN [raised |-> "TypeError", data |-> with_hour]
        ELSE [raised |-> "none",
              data |-> SetColumn(with_hour, "group_size_category",
                                 [i \in 1..len(with_hour) |->
                                     cut(with_hour.columns["Total Passengers"][i])])]

\* lines 35-63: the processor's fields after _preprocess_data(), and what it
\* raised. self.data is assigned on the way (lines 44, 54, 69-94), and
\* self.processed_data only at the end (line 63).
preprocess_data(self) ==
    IF self.data.none
    THEN [raised |-> "none", data |-> self.data,
          processed_data |-> self.processed_data]
    ELSE LET converted ==
                 IF "Trip Date and Time" \in DOMAIN self.data.columns
                 THEN SetColumn(self.data, "Trip Date and Time",
                                [i \in 1..len(self.data) |->
                                    to_datetime(self.data.columns["Trip Date and Time"][i])])
                 ELSE self.data
             filled ==
                 IF "Total Passengers" \in DOMAIN converted.columns
                 THEN SetColumn(converted, "Total Passengers",
                                [i \in 1..len(converted) |->
                                    fillna_1(converted.columns["Total Passengers"][i])])
                 ELSE converted
             derived == create_derived_features(filled)
         IN  IF derived.raised # "none"
             THEN [raised |-> derived.raised, data |-> derived.data,
                   processed_data |-> self.processed_data]
             ELSE [raised |-> "none", data |-> derived.data,
                   processed_data |-> derived.data]

\* the values of a column that are not NaN
dropna(cells) == SelectSeq(cells, LAMBDA cell : cell.type # "NaN")

Count(cells, v) == Cardinality({i \in 1..Len(cells) : cells[i].value = v})

\* Series.mode().iloc[0]: the smallest of the most frequent values that are
\* not NaN; IndexError when there is none
mode_iloc_0(cells) ==
    LET values == dropna(cells)
        most   == {v \in {values[i].value : i \in 1..Len(values)} :
                     \A i \in 1..Len(values) :
                        Count(values, v) >= Count(values, values[i].value)}
    IN  IF Len(values) = 0
        THEN [raised |-> "IndexError", value |-> -1]
        ELSE [raised |-> "none", value |-> Min(most)]

RECURSIVE Sum(_)
Sum(cells) == IF cells = <<>> THEN 0 ELSE Head(cells).value + Sum(Tail(cells))

\* Series.mean() in 1/1000, NaN left out
mean(cells) ==
    LET values == dropna(cells)
    IN  IF Len(values) = 0 THEN NaN
        ELSE Num((Sum(values) * 1000) \div Len(values))

\* the dict {} that get_trip_statistics returns without processed data
EmptyDict == [keys |-> {}]

\* lines 124-139
get_trip_statistics(self) ==
    IF self.processed_data.none
    THEN [raised |-> "none", returned |-> EmptyDict]
    ELSE LET columns == self.processed_data.columns
             peak_hour ==
                 IF "Pickup Hour" \in DOMAIN columns
                 THEN mode_iloc_0(columns["Pickup Hour"])
                 ELSE [raised |-> "none", value |-> 21]
             most_common_group_size ==
                 IF "Total Passengers" \in DOMAIN columns
                 THEN mode_iloc_0(columns["Total Passengers"])
                 ELSE [raised |-> "none", value |-> 8]
         IN  IF peak_hour.raised # "none"
             THEN [raised |-> peak_hour.raised, returned |-> EmptyDict]
             ELSE IF most_common_group_size.raised # "none"
             THEN [raised |-> most_common_group_size.raised, returned |-> EmptyDict]
             ELSE [raised |-> "none",
                   returned |->
                     [keys |-> {"total_trips", "avg_group_size", "avg_trip_duration",
                                "avg_fare", "peak_hour", "most_common_group_size",
                                "avg_rider_age"},
                      total_trips |-> len(self.processed_data),
                      avg_group_size |->
                          IF "Total Passengers" \in DOMAIN columns
                          THEN mean(columns["Total Passengers"])
                          ELSE Num(0),
                      avg_trip_duration |-> 30,
                      avg_fare |-> 25,
                      peak_hour |-> peak_hour.value,
                      most_common_group_size |-> most_common_group_size.value,
                      avg_rider_age |-> 25]]

-----------------------------------------------------------------------------
(* The inputs tried *)

UniversityCampus == <<"U","n","i","v","e","r","s","i","t","y"," ","C","a","m","p","u","s">>
AirportABIA == <<"A","u","s","t","i","n","-","B","e","r","g","s","t","r","o","m"," ","I","n","t","e","r","n","a","t","i","o","n","a","l"," ","A","i","r","p","o","r","t">>
MoodyCenter == <<"M","o","o","d","y"," ","C","e","n","t","e","r">>
DowntownAustin == <<"D","o","w","n","t","o","w","n"," ","A","u","s","t","i","n",","," ","T","X">>

\* zone Airport to zone Airport ('aus' in Austin), label 27.42 minutes
TripAirport ==
    [pickup |-> AirportABIA, dropoff |-> DowntownAustin,
     hour |-> 23, weekday |-> 6, passengers |-> 10,
     lat1 |-> 30194, lon1 |-> -97670, lat2 |-> 30222, lon2 |-> -97702]

\* zone Other to zone Airport, label capped at 45 minutes
TripMoody ==
    [pickup |-> MoodyCenter, dropoff |-> AirportABIA,
     hour |-> 21, weekday |-> 6, passengers |-> 8,
     lat1 |-> 30277, lon1 |-> -97732, lat2 |-> 30194, lon2 |-> -97670]

TripRows == {TripAirport, TripMoody}

Corpora == UNION {[1..n -> TripRows] : n \in 0..MaxRows}

Locations == {UniversityCampus, AirportABIA, MoodyCenter, None}

Str(s) == [type |-> "str", value |-> s]

Datetime(weekday, hour, minute) ==
    [type |-> "datetime",
     value |-> [weekday |-> weekday, hour |-> hour, minute |-> minute]]

ArrivalTimes ==
    { Str(<<"2","1",":","0","0">>),
      Str(<<"0","8",":","3","0">>),
      Str(<<"0","9","0","0">>),
      Str(<<"9",":","3","0">>),
      Str(<<"0","0",":","1","0">>),
      Str(<<"1","2">>),
      Str(<<"2","5",":","0","0">>),
      Str(<<"9","p","m">>),
      Datetime(5, 18, 0),
      Datetime(6, 12, 0) }

GroupSizes == 1..MaxGroupSize

\* the calls tried: every pair of locations at one arrival time, every
\* arrival time for one pair of locations, every group size at a rush
\* hour and on a weekend, and a group of five in the evening and at a rush hour
PredictArgs ==
    {[pickup_location |-> p, dropoff_location |-> d,
      arrival_time |-> Str(<<"2","1",":","0","0">>), group_size |-> 1] :
        p \in Locations, d \in Locations}
    \cup
    {[pickup_location |-> UniversityCampus, dropoff_location |-> AirportABIA,
      arrival_time |-> a, group_size |-> 1] : a \in ArrivalTimes}
    \cup
    {[pickup_location |-> UniversityCampus, dropoff_location |-> AirportABIA,
      arrival_time |-> a, group_size |-> g] :
        a \in {Str(<<"0","8",":","3","0">>), Datetime(5, 18, 0)},
        g \in GroupSizes}
    \cup
    {[pickup_location |-> UniversityCampus, dropoff_location |-> AirportABIA,
      arrival_time |-> a, group_size |-> 5] :
        a \in {Str(<<"2","1",":","0","0">>), Str(<<"0","8",":","3","0">>)}}

-----------------------------------------------------------------------------
(* The state machine *)

\* the callers that may have a predict_departure_time call in flight
Callers == {1, 2}

\* a caller with no call in flight
IdleCall == [pc |-> "idle"]

Self == [is_trained |-> is_trained, location_encoder |-> location_encoder,
         model |-> model]

\* TravelTimePredictor(): lines 13-16
Init ==
    /\ is_trained = FALSE
    /\ location_encoder = NewLabelEncoder
    /\ model = NewModel
    /\ calls = [c \in Callers |-> IdleCall]
    /\ data = NoData
    /\ processed_data = NoData
    /\ last = [op |-> "init", raised |-> "none", returned |-> "nothing"]

\* predictor.train(frame); last.df is the caller's frame after the call
Train(frame) ==
    \E r \in {train(Self, frame)} :
        /\ is_trained' = r.is_trained
        /\ location_encoder' = r.location_encoder
        /\ model' = r.model
        /\ last' = [op |-> "train", args |-> [df |-> frame], raised |-> r.raised,
                    returned |-> IF r.raised = "none" THEN "self" ELSE "nothing",
                    was_trained |-> is_trained, df |-> r.df]
        /\ UNCHANGED <<calls, data, processed_data>>

\* predictor.predict_departure_time(pickup, dropoff, arrival, group_size)
Predict(pickup_location, dropoff_location, arrival_time, group_size, forest_output) ==
    \E r \in {predict_departure_time(Self, pickup_location, dropoff_location,
                                    arrival_time, group_size, forest_output)} :
        /\ is_trained' = r.self.is_trained
        /\ location_encoder' = r.self.location_encoder
        /\ model' = r.self.model
        /\ last' = [f \in DOMAIN r \ {"self"} |-> r[f]]
        /\ UNCHANGED <<calls, data, processed_data>>

Next ==
    \/ \E frame \in {NewFrame(c) : c \in Corpora} : Train(frame)
    \/ \E a \in PredictArgs, forest_output \in model_predict(model) :
            Predict(a.pickup_location, a.dropoff_location, a.arrival_time,
                    a.group_size, forest_output)

Spec == Init /\ [][Next]_vars

-----------------------------------------------------------------------------
(* _calculate_buffer_time on its own: every weekday, hour and group size *)

InitBuffer ==
    /\ is_trained = FALSE
    /\ location_encoder = NewLabelEncoder
    /\ model = NewModel
    /\ calls = [c \in Callers |-> IdleCall]
    /\ data = NoData
    /\ processed_data = NoData
    /\ \E weekday \in 0..6, hour \in 0..23, minute \in {0, 59},
          group_size \in GroupSizes :
            last = [op |-> "arguments",
                    arrival_dt |-> [weekday |-> weekday, hour |-> hour,
                                    minute |-> minute],
                    args |-> [group_size |-> group_size]]

CalculateBuffer ==
    /\ last.op = "arguments"
    /\ last' = [op |-> "buffer", arrival_dt |-> last.arrival_dt,
                args |-> last.args,
                buffer_minutes |->
                    calculate_buffer_time(last.arrival_dt, last.args.group_size)]
    /\ UNCHANGED <<is_trained, location_encoder, model, calls, data, processed_data>>

\* the same arrival time again, for a larger group; smaller is the call before
CalculateBufferAgain(group_size) ==
    /\ last.op = "buffer"
    /\ group_size > last.args.group_size
    /\ last' = [op |-> "buffer", arrival_dt |-> last.arrival_dt,
                args |-> [group_size |-> group_size],
                buffer_minutes |->
                    calculate_buffer_time(last.arrival_dt, group_size),
                smaller |-> [group_size |-> last.args.group_size,
                             buffer_minutes |-> last.buffer_minutes]]
    /\ UNCHANGED <<is_trained, location_encoder, model, calls, data, processed_data>>

NextBuffer ==
    \/ CalculateBuffer
    \/ \E group_size \in GroupSizes : CalculateBufferAgain(group_size)

SpecBuffer == InitBuffer /\ [][NextBuffer]_vars

-----------------------------------------------------------------------------
(* _estimate_distance_from_zones on its own: every pair of zone names, asked *)
(* again after the predictor has been trained on another corpus              *)

\* how often the distance of one pair is asked for
MaxAsks == 2

Zones == Range(ZoneNamesSorted)

InitDistance ==
    /\ is_trained = FALSE
    /\ location_encoder = NewLabelEncoder
    /\ model = NewModel
    /\ calls = [c \in Callers |-> IdleCall]
    /\ data = NoData
    /\ processed_data = NoData
    /\ \E pickup_zone \in Zones, dropoff_zone \in Zones :
            last = [op |-> "zones", pickup_zone |-> pickup_zone,
                    dropoff_zone |-> dropoff_zone, asks |-> 0]

\* self._estimate_distance_from_zones(pickup_zone, dropoff_zone) and the same
\* with the zones exchanged; first is what the first call answered
EstimateDistanceFromZones ==
    /\ last.asks < MaxAsks
    /\ \E forward \in {estimate_distance_from_zones(last.pickup_zone, last.dropoff_zone)},
          backward \in {estimate_distance_from_zones(last.dropoff_zone, last.pickup_zone)} :
            last' = [op |-> "distance", pickup_zone |-> last.pickup_zone,
                     dropoff_zone |-> last.dropoff_zone, asks |-> last.asks + 1,
                     distance |-> forward, exchanged |-> backward,
                     first |-> IF last.asks = 0 THEN forward ELSE last.first]
    /\ UNCHANGED <<is_trained, location_encoder, model, calls, data, processed_data>>

\* predictor.train(frame) between two calls, while no call is in flight
TrainBetween(frame) ==
    /\ \A c \in Callers : calls[c].pc = "idle"
    /\ \E r \in {train(Self, frame)} :
        /\ is_trained' = r.is_trained
        /\ location_encoder' = r.location_encoder
        /\ model' = r.model
    /\ UNCHANGED <<calls, data, processed_data, last>>

NextDistance ==
    \/ EstimateDistanceFromZones
    \/ \E frame \in {NewFrame(c) : c \in Corpora} : TrainBetween(frame)

SpecDistance == InitDistance /\ [][NextDistance]_vars

-----------------------------------------------------------------------------
(* _calculate_trip_duration and _estimate_distance on their own: one row     *)
(* for every choice of pickup and dropoff coordinates                        *)

\* latitudes and longitudes around Austin, in 1/1000 degree
Latitudes == {30194, 30222, 30277, 30339}

Longitudes == {-97851, -97732, -97702, -97670}

InitDuration ==
    /\ is_trained = FALSE
    /\ location_encoder = NewLabelEncoder
    /\ model = NewModel
    /\ calls = [c \in Callers |-> IdleCall]
    /\ data = NoData
    /\ processed_data = NoData
    /\ \E lat1 \in Latitudes, lon1 \in Longitudes,
          lat2 \in Latitudes, lon2 \in Longitudes :
            last = [op |-> "row",
                    row |-> [TripAirport EXCEPT !.lat1 = lat1, !.lon1 = lon1,
                                                !.lat2 = lat2, !.lon2 = lon2]]

\* self._calculate_trip_duration(df) and self._estimate_distance(row) for the
\* frame of the one row
CalculateTripDuration ==
    /\ last.op = "row"
    /\ last' = [op |-> "duration", row |-> last.row,
                distance_estimate |-> estimate_distance(last.row),
                trip_duration |-> calculate_trip_duration(NewFrame(<<last.row>>))[1]]
    /\ UNCHANGED <<is_trained, location_encoder, model, calls, data, processed_data>>

NextDuration == CalculateTripDuration

SpecDuration == InitDuration /\ [][NextDuration]_vars

-----------------------------------------------------------------------------
(* predict_departure_time step by step, for callers whose calls interleave   *)
(* on one predictor. A step is a stretch of the method that reads the        *)
(* predictor at most once; the position of a call is the line it is at.      *)

\* the calls the callers make
ConcurrentArgs ==
    {[pickup_location |-> UniversityCampus, dropoff_location |-> AirportABIA,
      arrival_time |-> Str(<<"2","1",":","0","0">>), group_size |-> 1],
     [pickup_location |-> MoodyCenter, dropoff_location |-> UniversityCampus,
      arrival_time |-> Str(<<"0","8",":","3","0">>), group_size |-> 2],
     [pickup_location |-> AirportABIA, dropoff_location |-> MoodyCenter,
      arrival_time |-> Str(<<"0","9","0","0">>), group_size |-> 1],
     [pickup_location |-> UniversityCampus, dropoff_location |-> AirportABIA,
      arrival_time |-> Str(<<"2","5",":","0","0">>), group_size |-> 1]}

\* a call that has just been entered; self0 is the predictor as it was then
NewCall(args, self0) ==
    [pc |-> "line57", args |-> args, self0 |-> self0,
     raised |-> "none", returned |-> "nothing",
     arrival_dt |-> NoDatetime, pickup_zone |-> "", dropoff_zone |-> "",
     pickup_encoded |-> -1, dropoff_encoded |-> -1,
     X_pred |-> <<>>, predicted_duration |-> -1, buffer_minutes |-> -1,
     plan |-> NoPlan]

InitConcurrent ==
    /\ is_trained = FALSE
    /\ location_encoder = NewLabelEncoder
    /\ model = NewModel
    /\ calls = [c \in Callers |-> IdleCall]
    /\ data = NoData
    /\ processed_data = NoData
    /\ last = [op |-> "init", raised |-> "none", returned |-> "nothing"]

\* caller c enters predict_departure_time
Begin(c, args) ==
    /\ calls[c].pc = "idle"
    /\ calls' = [calls EXCEPT ![c] = NewCall(args, Self)]
    /\ UNCHANGED <<is_trained, location_encoder, model, data, processed_data, last>>

\* lines 57-58: reads self.is_trained
CheckTrained(c) ==
    /\ calls[c].pc = "line57"
    /\ calls' = [calls EXCEPT ![c] =
                    IF is_trained
                    THEN [@ EXCEPT !.pc = "line61"]
                    ELSE [@ EXCEPT !.pc = "done",
                                   !.returned = "Model not trained. Please train with data first."]]
    /\ UNCHANGED <<is_trained, location_encoder, model, data, processed_data, last>>

\* lines 61-71: the arrival time and the two zones, from the arguments alone
ParseAndClassify(c) ==
    /\ calls[c].pc = "line61"
    /\ \E parsed \in {parse_arrival_time(calls[c].args.arrival_time)} :
        calls' = [calls EXCEPT ![c] =
                    IF parsed.raised # "none"
                    THEN [@ EXCEPT !.pc = "done", !.raised = parsed.raised]
                    ELSE [@ EXCEPT !.pc = "line75",
                                   !.arrival_dt = parsed.dt,
                                   !.pickup_zone = extract_zone(calls[c].args.pickup_location),
                                   !.dropoff_zone = extract_zone(calls[c].args.dropoff_location)]]
    /\ UNCHANGED <<is_trained, location_encoder, model, data, processed_data, last>>

\* line 75, and lines 77-80 when it raises: reads self.location_encoder
EncodePickup(c) ==
    /\ calls[c].pc = "line75"
    /\ \E p \in {transform(location_encoder, <<calls[c].pickup_zone>>)} :
        /\ location_encoder' = p.encoder
        /\ calls' = [calls EXCEPT ![c] =
                        IF p.raised # "none"
                        THEN [@ EXCEPT !.pc = "line83",
                                       !.pickup_encoded = 0, !.dropoff_encoded = 0]
                        ELSE [@ EXCEPT !.pc = "line76",
                                       !.pickup_encoded = p.ids[1]]]
    /\ UNCHANGED <<is_trained, model, data, processed_data, last>>

\* line 76, and lines 77-80 when it raises: reads self.location_encoder
EncodeDropoff(c) ==
    /\ calls[c].pc = "line76"
    /\ \E d \in {transform(location_encoder, <<calls[c].dropoff_zone>>)} :
        /\ location_encoder' = d.encoder
        /\ calls' = [calls EXCEPT ![c] =
                        IF d.raised # "none"
                        THEN [@ EXCEPT !.pc = "line83",
                                       !.pickup_encoded = 0, !.dropoff_encoded = 0]
                        ELSE [@ EXCEPT !.pc = "line83",
                                       !.dropoff_encoded = d.ids[1]]]
    /\ UNCHANGED <<is_trained, model, data, processed_data, last>>

\* lines 83-89: the distance, the features, and self.model.predict, which
\* reads self.model
ModelPredict(c, forest_output) ==
    /\ calls[c].pc = "line83"
    /\ calls' = [calls EXCEPT ![c] =
                    [@ EXCEPT !.pc = "line92",
                              !.X_pred = <<calls[c].pickup_encoded, calls[c].dropoff_encoded,
                                           calls[c].arrival_dt.hour, calls[c].arrival_dt.weekday,
                                           calls[c].args.group_size,
                                           estimate_distance_from_zones(
                                               calls[c].pickup_zone, calls[c].dropoff_zone)>>,
                              !.predicted_duration = forest_output]]
    /\ UNCHANGED <<is_trained, location_encoder, model, data, processed_data, last>>

\* lines 92-103: the buffer and the plan, from the call's own values
ReturnPlan(c) ==
    /\ calls[c].pc = "line92"
    /\ \E buffer_minutes \in {calculate_buffer_time(calls[c].arrival_dt,
                                                    calls[c].args.group_size)} :
        calls' = [calls EXCEPT ![c] =
            [@ EXCEPT
                !.pc = "done",
                !.returned = "plan",
                !.buffer_minutes = buffer_minutes,
                !.plan = [departure_time |->
                              strftime_HM((calls[c].arrival_dt.hour * 60 + calls[c].arrival_dt.minute) * 1000
                                          - calls[c].predicted_duration - buffer_minutes * 1000),
                          travel_time |-> format_0f(calls[c].predicted_duration),
                          buffer_time |-> buffer_minutes,
                          total_time |-> format_0f(calls[c].predicted_duration
                                                   + buffer_minutes * 1000)]]]
    /\ UNCHANGED <<is_trained, location_encoder, model, data, processed_data, last>>

\* the caller takes what the call returned or raised
Collect(c) ==
    /\ calls[c].pc = "done"
    /\ calls' = [calls EXCEPT ![c] = IdleCall]
    /\ UNCHANGED <<is_trained, location_encoder, model, data, processed_data, last>>

NextConcurrent ==
    \/ \E frame \in {NewFrame(c) : c \in Corpora} : TrainBetween(frame)
    \/ \E c \in Callers, args \in ConcurrentArgs : Begin(c, args)
    \/ \E c \in Callers : CheckTrained(c)
    \/ \E c \in Callers : ParseAndClassify(c)
    \/ \E c \in Callers : EncodePickup(c)
    \/ \E c \in Callers : EncodeDropoff(c)
    \/ \E c \in Callers, forest_output \in model_predict(model) :
            ModelPredict(c, forest_output)
    \/ \E c \in Callers : ReturnPlan(c)
    \/ \E c \in Callers : Collect(c)

SpecConcurrent == InitConcurrent /\ [][NextConcurrent]_vars

-----------------------------------------------------------------------------
(* The FetiiDataProcessor as test_data_processor uses it: data is assigned,  *)
(* _preprocess_data and get_trip_statistics are called                       *)

DateCells == {TimestampText(10), TimestampText(21), OtherText}

PassengerCells == {Num(2), Num(9), NaN}

\* what an optional column of a frame of n rows may be: absent (<<>>) or
\* n of the cells
ColumnChoices(n, cells) == {<<>>} \cup [1..n -> cells]

\* the frame of n rows with the column trip_id and the optional columns given
SampleFrame(n, dates, passengers) ==
    DataFrame([c \in {"trip_id"}
                     \cup (IF dates = <<>> THEN {} ELSE {"Trip Date and Time"})
                     \cup (IF passengers = <<>> THEN {} ELSE {"Total Passengers"}) |->
                  IF c = "trip_id" THEN [i \in 1..n |-> Num(i)]
                  ELSE IF c = "Trip Date and Time" THEN dates
                  ELSE passengers])

\* the frames assigned: one to MaxRows rows
SampleFrames ==
    UNION {{SampleFrame(n, dates, passengers) :
                dates \in ColumnChoices(n, DateCells),
                passengers \in ColumnChoices(n, PassengerCells)} :
           n \in 1..MaxRows}

Processor == [data |-> data, processed_data |-> processed_data]

\* FetiiDataProcessor(): lines 13-17, no data_path
InitProcessor ==
    /\ is_trained = FALSE
    /\ location_encoder = NewLabelEncoder
    /\ model = NewModel
    /\ calls = [c \in Callers |-> IdleCall]
    /\ data = NoData
    /\ processed_data = NoData
    /\ last = [op |-> "init", raised |-> "none", preprocessed |-> FALSE]

\* processor.data = sample_data
AssignData(frame) ==
    /\ data.none
    /\ data' = frame
    /\ last' = [op |-> "assign", raised |-> "none", preprocessed |-> FALSE]
    /\ UNCHANGED <<is_trained, location_encoder, model, calls, processed_data>>

\* processor._preprocess_data()
PreprocessData ==
    /\ \E r \in {preprocess_data(Processor)} :
        /\ data' = r.data
        /\ processed_data' = r.processed_data
        /\ last' = [op |-> "_preprocess_data", raised |-> r.raised,
                    preprocessed |-> ~data.none /\ r.raised = "none"]
    /\ UNCHANGED <<is_trained, location_encoder, model, calls>>

\* processor.get_trip_statistics()
GetTripStatistics ==
    /\ \E r \in {get_trip_statistics(Processor)} :
        last' = [op |-> "get_trip_statistics", raised |-> r.raised,
                 returned |-> r.returned, preprocessed |-> last.preprocessed]
    /\ UNCHANGED <<is_trained, location_encoder, model, calls, data, processed_data>>

NextProcessor ==
    \/ \E frame \in SampleFrames : AssignData(frame)
    \/ PreprocessData
    \/ GetTripStatistics

SpecProcessor == InitProcessor /\ [][NextProcessor]_vars

-----------------------------------------------------------------------------
(* FetiiDataProcessor.load_data: files of one row are loaded one after the   *)
(* other into the same processor                                             *)

\* a file as read_csv or read_json sees it: the suffix of its path, whether it
\* can be read, and the frame read from it
DataFile(suffix, frame) == [suffix |-> suffix, readable |-> TRUE, frame |-> frame]

\* a path to no file
MissingFile(suffix) == [suffix |-> suffix, readable |-> FALSE, frame |-> NoData]

\* the files tried: one-row tables whose passenger cell may also be a text
\* that is no number, under the suffixes .csv, .json and .txt, and two paths
\* without a file
DataFiles ==
    {DataFile(".csv", SampleFrame(1, dates, passengers)) :
        dates \in ColumnChoices(1, DateCells),
        passengers \in ColumnChoices(1, PassengerCells \cup {OtherText})}
    \cup {DataFile(".json", SampleFrame(1, <<TimestampText(21)>>, <<passengers>>)) :
            passengers \in {Num(9), OtherText}}
    \cup {DataFile(".txt", SampleFrame(1, <<TimestampText(21)>>, <<Num(9)>>)),
          MissingFile(".csv"), MissingFile(".json")}

\* lines 19-33: the processor's fields after load_data(data_path), what it
\* returned and what it raised. An exception of the reader or of
\* _preprocess_data is caught at line 31.
load_data(self, data_path) ==
    IF data_path.suffix \notin {".csv", ".json"}
    THEN [raised |-> "none", returned |-> FALSE, data |-> self.data,
          processed_data |-> self.processed_data]
    ELSE IF ~data_path.readable
    THEN [raised |-> "none", returned |-> FALSE, data |-> self.data,
          processed_data |-> self.processed_data]
    ELSE LET r == preprocess_data([data |-> data_path.frame,
                                   processed_data |-> self.processed_data])
         IN  [raised |-> "none", returned |-> r.raised = "none",
              data |-> r.data, processed_data |-> r.processed_data]

\* processor.load_data(data_path)
LoadData(data_path) ==
    /\ \E r \in {load_data(Processor, data_path)} :
        /\ data' = r.data
        /\ processed_data' = r.processed_data
        /\ last' = [op |-> "load_data", raised |-> r.raised,
                    returned |-> r.returned, preprocessed |-> r.returned,
                    before |-> Processor]
    /\ UNCHANGED <<is_trained, location_encoder, model, calls>>

NextLoader ==
    \/ \E data_path \in DataFiles : LoadData(data_path)
    \/ GetTripStatistics

SpecLoader == InitProcessor /\ [][NextLoader]_vars

-----------------------------------------------------------------------------
(* _extract_zone on its own and as train and predict_departure_time use it:  *)
(* addresses of one or two words                                             *)

\* words that addresses are made of, in upper and lower case
Words ==
    {<<"A","i","r","p","o","r","t">>,
     <<"A","U","S">>,
     <<"A","u","s","t","i","n">>,
     <<"U","n","i","v","e","r","s","i","t","y">>,
     <<"C","a","m","p","u","s">>,
     <<"2","3","r","d">>,
     <<"W","e","s","t">>,
     <<"W">>,
     <<"D","o","w","n","t","o","w","n">>,
     <<"6","t","h">>,
     <<"M","a","r","k","e","t">>,
     <<"E","a","s","t">>,
     <<"E">>,
     <<"S","o","u","t","h">>,
     <<"S">>,
     <<"C","o","n","g","r","e","s","s">>,
     <<"N","o","r","t","h">>,
     <<"N">>,
     <<"M","o","o","d","y">>}

Addresses ==
    {None} \cup Words \cup {first \o <<" ">> \o second : first \in Words, second \in Words}

InitZone ==
    /\ is_trained = FALSE
    /\ location_encoder = NewLabelEncoder
    /\ model = NewModel
    /\ calls = [c \in Callers |-> IdleCall]
    /\ data = NoData
    /\ processed_data = NoData
    /\ \E address \in Addresses : last = [op |-> "address", address |-> address]

\* the one-row corpus from the address to the same address
TripFrom(address) ==
    NewFrame(<<[TripAirport EXCEPT !.pickup = address, !.dropoff = address]>>)

\* self._extract_zone(address); the zone prepare_training_data gets for the
\* address (line 27), read from the encoder fitted on it; and the zones
\* predict_departure_time gets for it (lines 70-71) on the predictor trained so
ExtractZone ==
    /\ last.op = "address"
    /\ \E trained \in {train(Self, TripFrom(last.address))} :
       \E r \in {predict_departure_time(trained, last.address, last.address,
                                        Str(<<"2","1",":","0","0">>), 1, 15000)} :
            last' = [op |-> "zone", address |-> last.address,
                     zone |-> extract_zone(last.address),
                     training_zone |-> trained.location_encoder.classes_[1],
                     classes_ |-> trained.location_encoder.classes_,
                     pickup_zone |-> r.pickup_zone,
                     dropoff_zone |-> r.dropoff_zone]
    /\ UNCHANGED <<is_trained, location_encoder, model, calls, data, processed_data>>

NextZone == ExtractZone

SpecZone == InitZone /\ [][NextZone]_vars

-----------------------------------------------------------------------------
(* smart_answer (src/war_room_smart.py): the question is searched for a time, *)
(* two places and a group size; with all three of time, pickup and dropoff  *)
(* the shared predictor is asked, otherwise the data is summarised.         *)

\* the AM and PM markers smart_answer looks for in the lower-cased question
kw_am == <<"a","m">>
kw_pm == <<"p","m">>

\* \s of the re module, for the characters the questions are written in
IsSpace(c) == c = " "

\* the character at position i, or nothing past either end
CharAt(s, i) == IF i \in 1..Len(s) THEN s[i] ELSE ""

\* \d{n} at position i
DigitsAt(s, i, n) == \A k \in 0..(n - 1) : IsDigit(CharAt(s, i + k))

\* the literal word at position i
StartsAt(s, i, word) ==
    /\ i >= 1
    /\ i + Len(word) - 1 <= Len(s)
    /\ \A k \in 1..Len(word) : s[i + k - 1] = word[k]

\* the length of what \s* takes from position i
SpaceRun(s, i) ==
    CHOOSE n \in 0..Len(s) :
        /\ \A k \in 0..(n - 1) : IsSpace(CharAt(s, i + k))
        /\ ~IsSpace(CharAt(s, i + n))

\* the length of what \d+ takes from position i
DigitRun(s, i) ==
    CHOOSE n \in 0..Len(s) :
        /\ \A k \in 0..(n - 1) : IsDigit(CharAt(s, i + k))
        /\ ~IsDigit(CharAt(s, i + n))

RECURSIVE int(_)
\* int() of a str of digits
int(s) ==
    IF Len(s) = 0 THEN 0
    ELSE 10 * int(SubSeq(s, 1, Len(s) - 1)) + DigitValue(s[Len(s)])

\* f"{n:02d}" for 0 <= n < 1000
format_02d(n) ==
    IF n < 100
    THEN <<Digits[(n \div 10) + 1], Digits[(n % 10) + 1]>>
    ELSE <<Digits[(n \div 100) + 1], Digits[((n \div 10) % 10) + 1], Digits[(n % 10) + 1]>>

\* re.search found nothing
NoMatch == [matched |-> FALSE]

\* a way the pattern matches: where it starts, how many choices the regex
\* engine tries at that start before this one, and the two groups
Match(start, rank, group1, group2) ==
    [matched |-> TRUE, start |-> start, rank |-> rank,
     group1 |-> group1, group2 |-> group2]

\* re.search: the leftmost start, and there the first choice the engine tries
re_search(matches) ==
    IF matches = {} THEN NoMatch
    ELSE CHOOSE m \in matches :
            \A o \in matches :
                m.start < o.start \/ (m.start = o.start /\ m.rank <= o.rank)

\* line 131: r'(\d{1,2}):(\d{2})'
time_pattern_1(q) ==
    {Match(x[1], 2 - x[2], SubSeq(q, x[1], x[1] + x[2] - 1),
           SubSeq(q, x[1] + x[2] + 1, x[1] + x[2] + 2)) :
        x \in {y \in (1..Len(q)) \X {1, 2} :
                 /\ DigitsAt(q, y[1], y[2])
                 /\ CharAt(q, y[1] + y[2]) = ":"
                 /\ DigitsAt(q, y[1] + y[2] + 1, 2)}}

\* line 132: r'(\d{1,2})[:\s](\d{2})'
time_pattern_2(q) ==
    {Match(x[1], 2 - x[2], SubSeq(q, x[1], x[1] + x[2] - 1),
           SubSeq(q, x[1] + x[2] + 1, x[1] + x[2] + 2)) :
        x \in {y \in (1..Len(q)) \X {1, 2} :
                 /\ DigitsAt(q, y[1], y[2])
                 /\ \/ CharAt(q, y[1] + y[2]) = ":"
                    \/ IsSpace(CharAt(q, y[1] + y[2]))
                 /\ DigitsAt(q, y[1] + y[2] + 1, 2)}}

\* lines 133-134: r'at\s+(\d{1,2}):?(\d{2})' and r'by\s+(\d{1,2}):?(\d{2})';
\* x is the start, the length of the hour and whether the colon is taken
time_pattern_after(q, word) ==
    {Match(x[1], (2 - x[2]) * 2 + (1 - x[3]),
           SubSeq(q, x[4], x[4] + x[2] - 1),
           SubSeq(q, x[4] + x[2] + x[3], x[4] + x[2] + x[3] + 1)) :
        x \in {<<y[1], y[2], y[3], y[1] + Len(word) + SpaceRun(q, y[1] + Len(word))>> :
                 y \in {z \in (1..Len(q)) \X {1, 2} \X {0, 1} :
                          /\ StartsAt(q, z[1], word)
                          /\ SpaceRun(q, z[1] + Len(word)) >= 1
                          /\ \E j \in {z[1] + Len(word) + SpaceRun(q, z[1] + Len(word))} :
                                /\ DigitsAt(q, j, z[2])
                                /\ z[3] = 1 => CharAt(q, j + z[2]) = ":"
                                /\ DigitsAt(q, j + z[2] + z[3], 2)}}}

\* line 135: r'(\d{1,2})\s*(am|pm)'
time_pattern_5(q) ==
    {Match(x[1], 2 - x[2], SubSeq(q, x[1], x[1] + x[2] - 1),
           SubSeq(q, x[3], x[3] + 1)) :
        x \in {<<y[1], y[2], y[1] + y[2] + SpaceRun(q, y[1] + y[2])>> :
                 y \in {z \in (1..Len(q)) \X {1, 2} :
                          /\ DigitsAt(q, z[1], z[2])
                          /\ \E j \in {z[1] + z[2] + SpaceRun(q, z[1] + z[2])} :
                                StartsAt(q, j, kw_am) \/ StartsAt(q, j, kw_pm)}}}

\* lines 139-141: the first pattern of the list that is found in the question
first_time_match(q) ==
    LET found == <<re_search(time_pattern_1(q)),
                   re_search(time_pattern_2(q)),
                   re_search(time_pattern_after(q, <<"a","t">>)),
                   re_search(time_pattern_after(q, <<"b","y">>)),
                   re_search(time_pattern_5(q))>>
        hits  == {k \in 1..5 : found[k].matched}
    IN  IF hits = {} THEN NoMatch ELSE found[Min(hits)]

\* lines 138-153: the arrival time as "HH:MM", or None. 'am' in q and
\* 'pm' in q look at the whole question.
extract_arrival_time(q) ==
    LET match == first_time_match(q) IN
    IF ~match.matched
    THEN [raised |-> "none", arrival_time |-> None]
    ELSE IF Contains(q, kw_am) \/ Contains(q, kw_pm)
    THEN LET hour   == int(match.group1)
             hour24 == IF Contains(q, kw_pm) /\ hour # 12 THEN hour + 12
                       ELSE IF Contains(q, kw_am) /\ hour = 12 THEN 0
                       ELSE hour
         IN  [raised |-> "none",
              arrival_time |-> format_02d(hour24) \o <<":","0","0">>]
    ELSE IF \E i \in 1..Len(match.group2) : ~IsDigit(match.group2[i])
    THEN [raised |-> "ValueError", arrival_time |-> None]
    ELSE [raised |-> "none",
          arrival_time |-> format_02d(int(match.group1)) \o <<":">>
                              \o format_02d(int(match.group2))]

\* lines 159-164
extract_pickup_location(q) ==
    IF Contains(q, <<"u","t"," ","c","a","m","p","u","s">>) \/ Contains(q, kw_university) \/ Contains(q, kw_campus)
    THEN <<"U","n","i","v","e","r","s","i","t","y"," ","C","a","m","p","u","s",","," ","A","u","s","t","i","n",","," ","T","X">>
    ELSE IF Contains(q, kw_west_campus) THEN <<"W","e","s","t"," ","C","a","m","p","u","s",","," ","A","u","s","t","i","n",","," ","T","X">>
    ELSE IF Contains(q, kw_downtown) THEN DowntownAustin
    ELSE None

\* lines 166-171
extract_dropoff_location(q) ==
    IF Contains(q, kw_airport) \/ Contains(q, kw_aus) THEN <<"A","u","s","t","i","n","-","B","e","r","g","s","t","r","o","m"," ","I","n","t","e","r","n","a","t","i","o","n","a","l"," ","A","i","r","p","o","r","t",","," ","A","u","s","t","i","n",","," ","T","X">>
    ELSE IF Contains(q, <<"m","o","o","d","y"," ","c","e","n","t","e","r">>) THEN <<"M","o","o","d","y"," ","C","e","n","t","e","r",","," ","A","u","s","t","i","n",","," ","T","X">>
    ELSE IF Contains(q, <<"6","t","h"," ","s","t","r","e","e","t">>) \/ Contains(q, <<"s","i","x","t","h">>) THEN <<"6","t","h"," ","S","t","r","e","e","t",","," ","A","u","s","t","i","n",","," ","T","X">>
    ELSE None

\* lines 174-177: r'(\d+)\s*(people|person|group)', and 1 without a match
extract_group_size(q) ==
    LET starts == {i \in 1..Len(q) :
                     /\ DigitRun(q, i) >= 1
                     /\ \E j \in {i + DigitRun(q, i) + SpaceRun(q, i + DigitRun(q, i))} :
                           \/ StartsAt(q, j, <<"p","e","o","p","l","e">>)
                           \/ StartsAt(q, j, <<"p","e","r","s","o","n">>)
                           \/ StartsAt(q, j, <<"g","r","o","u","p">>)}
    IN  IF starts = {} THEN 1
        ELSE int(SubSeq(q, Min(starts), Min(starts) + DigitRun(q, Min(starts)) - 1))

\* lines 196-209: which of the four summaries is returned (their figures are
\* read from df and are left out)
fallback_answer(q) ==
    IF Contains(q, <<"p","e","a","k">>) /\ (Contains(q, <<"t","i","m","e">>) \/ Contains(q, <<"h","o","u","r">>))
    THEN "Peak hour"
    ELSE IF Contains(q, <<"a","v","e","r","a","g","e"," ","g","r","o","u","p">>) \/ Contains(q, <<"g","r","o","u","p"," ","s","i","z","e">>)
    THEN "Average group size"
    ELSE IF Contains(q, kw_airport) /\ (Contains(q, <<"w","h","e","n">>) \/ Contains(q, <<"t","i","m","e">>))
    THEN "For UT Campus to Airport"
    ELSE "Trips"

\* lines 123 and 129-177: what smart_answer reads out of the question
extract_request(question) ==
    LET q == lower(question)
    IN  [time |-> extract_arrival_time(q),
         pickup_location |-> extract_pickup_location(q),
         dropoff_location |-> extract_dropoff_location(q),
         group_size |-> extract_group_size(q),
         fallback |-> fallback_answer(q)]

\* lines 126-127 as they would be without the test of is_trained
train_every_time(predictor, df) ==
    LET t == train(predictor, df)
    IN  [called |-> TRUE, raised |-> t.raised,
         predictor |-> [is_trained |-> t.is_trained,
                        location_encoder |-> t.location_encoder,
                        model |-> t.model]]

\* lines 126-127: if not predictor.is_trained: predictor.train(df)
train_if_untrained(predictor, df) ==
    IF ~predictor.is_trained
    THEN LET t == train(predictor, df)
         IN  [called |-> TRUE, raised |-> t.raised,
              predictor |-> [is_trained |-> t.is_trained,
                             location_encoder |-> t.location_encoder,
                             model |-> t.model]]
    ELSE [called |-> FALSE, raised |-> "none", predictor |-> predictor]

\* lines 121-209. request is extract_request(question); forest_output is what
\* the forest answers if it is asked. The exception of train (line 127) and of
\* the time extraction leave smart_answer; the prediction is inside try/except.
\* t is the outcome of lines 126-127 and p that of the call at line 182, which
\* is made only on the branch that reads p.
smart_answer(question, request, df, predictor, forest_output) ==
    CHOOSE answer \in UNION {{
        IF t.raised # "none"
        THEN [raised |-> t.raised, returned |-> "nothing", train |-> t,
              prediction |-> [called |-> FALSE], predictor |-> t.predictor]
        ELSE IF request.time.raised # "none"
        THEN [raised |-> request.time.raised, returned |-> "nothing", train |-> t,
              prediction |-> [called |-> FALSE], predictor |-> t.predictor]
        ELSE IF /\ request.time.arrival_time # None
                /\ request.pickup_location # None
                /\ request.dropoff_location # None
        THEN [raised |-> "none",
              returned |-> IF p.raised # "none" \/ p.returned # "plan"
                           THEN "Error in prediction"
                           ELSE "Departure Time",
              train |-> t,
              prediction |-> [called |-> TRUE,
                              was_trained |-> t.predictor.is_trained,
                              args |-> p.args, raised |-> p.raised,
                              returned |-> p.returned, plan |-> p.plan],
              predictor |-> p.self]
        ELSE [raised |-> "none", returned |-> request.fallback, train |-> t,
              prediction |-> [called |-> FALSE], predictor |-> t.predictor] :
            p \in {predict_departure_time(t.predictor, request.pickup_location,
                                          request.dropoff_location,
                                          Str(request.time.arrival_time),
                                          request.group_size, forest_output)}} :
            t \in {train_if_untrained(predictor, df)}} : TRUE

\* "from downtown to the airport at 25:00": a time strptime cannot read
QuestionAirport2500 ==
    <<"f","r","o","m"," ","d","o","w","n","t","o","w","n"," ","t","o"," ","t","h","e"," ","a","i","r","p","o","r","t"," ","a","t"," ","2","5",":","0","0">>

\* the four sample questions of the page (lines 291-297):
\*   "I need to reach the airport at 21:00 from UT campus"
\*   "What time should I leave West Campus to reach Moody Center at 19:30?"
\*   "I have a group of 5 people, need to reach downtown at 18:00 from East Austin"
\*   "When should I leave for the airport if my flight is at 14:00?"
\* and further questions that reach the other time patterns, an unreadable
\* time and the data summary:
\*   "from downtown to the airport at 25:00"
\*   "from downtown to the airport by 9 pm"
\*   "What is the peak hour?"
\*   "from downtown to 6th street at 0930"
\*   "from campus to the airport by 7 45 with 12 people"
\*   "downtown to the airport by 0715"
Questions ==
    {<<"I"," ","n","e","e","d"," ","t","o"," ","r","e","a","c","h"," ","t","h","e"," ","a","i","r","p","o","r","t"," ","a","t"," ","2","1",":","0","0"," ","f","r","o","m"," ","U","T"," ","c","a","m","p","u","s">>,
     <<"W","h","a","t"," ","t","i","m","e"," ","s","h","o","u","l","d"," ","I"," ","l","e","a","v","e"," ","W","e","s","t"," ","C","a","m","p","u","s"," ","t","o"," ","r","e","a","c","h"," ","M","o","o","d","y"," ","C","e","n","t","e","r"," ","a","t"," ","1","9",":","3","0","?">>,
     <<"I"," ","h","a","v","e"," ","a"," ","g","r","o","u","p"," ","o","f"," ","5"," ","p","e","o","p","l","e",","," ","n","e","e","d"," ","t","o"," ","r","e","a","c","h"," ","d","o","w","n","t","o","w","n"," ","a","t"," ","1","8",":","0","0"," ","f","r","o","m"," ","E","a","s","t"," ","A","u","s","t","i","n">>,
     <<"W","h","e","n"," ","s","h","o","u","l","d"," ","I"," ","l","e","a","v","e"," ","f","o","r"," ","t","h","e"," ","a","i","r","p","o","r","t"," ","i","f"," ","m","y"," ","f","l","i","g","h","t"," ","i","s"," ","a","t"," ","1","4",":","0","0","?">>,
     QuestionAirport2500,
     <<"f","r","o","m"," ","d","o","w","n","t","o","w","n"," ","t","o"," ","t","h","e"," ","a","i","r","p","o","r","t"," ","b","y"," ","9"," ","p","m">>,
     <<"W","h","a","t"," ","i","s"," ","t","h","e"," ","p","e","a","k"," ","h","o","u","r","?">>,
     <<"f","r","o","m"," ","d","o","w","n","t","o","w","n"," ","t","o"," ","6","t","h"," ","s","t","r","e","e","t"," ","a","t"," ","0","9","3","0">>,
     <<"f","r","o","m"," ","c","a","m","p","u","s"," ","t","o"," ","t","h","e"," ","a","i","r","p","o","r","t"," ","b","y"," ","7"," ","4","5"," ","w","i","t","h"," ","1","2"," ","p","e","o","p","l","e">>,
     <<"d","o","w","n","t","o","w","n"," ","t","o"," ","t","h","e"," ","a","i","r","p","o","r","t"," ","b","y"," ","0","7","1","5">>}

(* smart_answer called again and again with one predictor, as main does with *)
(* the predictor it keeps in the session state (lines 254-256, 283, 302).    *)

\* smart_answer(question, df, predictor)
SmartAnswer(question, request, df) ==
    \E predictor \in {Self} :
    \E t \in {train_if_untrained(predictor, df)} :
    \E forest_output \in model_predict(t.predictor.model) :
    \E r \in {smart_answer(question, request, df, predictor, forest_output)} :
        /\ is_trained' = r.predictor.is_trained
        /\ location_encoder' = r.predictor.location_encoder
        /\ model' = r.predictor.model
        /\ last' = [op |-> "smart_answer", question |-> question,
                    raised |-> r.raised, returned |-> r.returned,
                    was_trained |-> is_trained,
                    train_called |-> r.train.called,
                    train_raised |-> r.train.raised,
                    prediction |-> r.prediction]
        /\ UNCHANGED <<calls, data, processed_data>>

NextSmart ==
    \E question \in Questions :
    \E request \in {extract_request(question)} :
    \E frame \in {NewFrame(c) : c \in Corpora} :
        SmartAnswer(question, request, frame)

\* the session starts with predictor = TravelTimePredictor()
SpecSmart == Init /\ [][NextSmart]_vars

-----------------------------------------------------------------------------
(* The claims *)

PlanReturned == last.op = "predict" /\ last.returned = "plan"

\* C1: predict_departure_time on a predictor that was never trained fails
\* with an error: it raises, and returns no value at all.
C1_UntrainedPredictRaises ==
    (last.op = "predict" /\ ~last.was_trained)
        => (last.raised # "none" /\ last.returned = "nothing")

\* C2: is_trained starts false, becomes true only by a train call that
\* completes, is true after every train call that completes, and once true
\* stays true under every later train and predict_departure_time call.
C2_OneWayLifecycle ==
    /\ is_trained = FALSE
    /\ [][/\ is_trained => is_trained'
          /\ (~is_trained /\ is_trained')
                => (last'.op = "train" /\ last'.raised = "none")
          /\ (last'.op = "train" /\ last'.raised = "none") => is_trained'
         ]_vars

\* a train call that failed on a predictor that was trained before
C2_Witness ==
    /\ last.op = "train"
    /\ last.raised # "none"
    /\ last.was_trained
    /\ is_trained
    /\ last.args.df = NewFrame(<<TripMoody>>)
    /\ model.y = <<27420>>

ZonesOf(frame) ==
    {extract_zone(frame.rows[i].pickup) : i \in 1..Len(frame.rows)}
        \cup {extract_zone(frame.rows[i].dropoff) : i \in 1..Len(frame.rows)}

\* C3: train on a nonempty corpus completes, is_trained is true afterwards
\* and every pickup zone and every dropoff zone of the corpus has an id in
\* the encoding.
C3_TrainCompletesOnNonempty ==
    (last.op = "train" /\ Len(last.args.df.rows) > 0)
        => /\ last.raised = "none"
           /\ is_trained
           /\ ZonesOf(last.args.df) \subseteq Range(location_encoder.classes_)

Keywords ==
    {kw_airport, kw_aus, kw_university, kw_campus, kw_23rd, kw_west_campus,
     kw_w_23rd, kw_downtown, kw_6th, kw_market, kw_east, kw_e_6th, kw_south,
     kw_s_congress, kw_north, kw_n_university}

MatchesNoKeyword(address) ==
    /\ address # None
    /\ \A k \in Keywords : ~Contains(lower(address), k)

\* a call on a trained predictor whose arrival time can be read
TrainedCall ==
    /\ last.op = "predict"
    /\ last.was_trained
    /\ parse_arrival_time(last.args.arrival_time).raised = "none"

\* C4 as stated: on a trained predictor a location that matches no keyword
\* does not make the call raise; it is classified Other, encoded as id 0, and
\* a plan is returned.
C4_NoKeywordIsIdZero ==
    TrainedCall =>
        /\ MatchesNoKeyword(last.args.pickup_location)
              => (PlanReturned /\ last.pickup_zone = "Other" /\ last.X_pred[1] = 0)
        /\ MatchesNoKeyword(last.args.dropoff_location)
              => (PlanReturned /\ last.dropoff_zone = "Other" /\ last.X_pred[2] = 0)

OtherId(id) ==
    IF "Other" \in Range(last.classes_)
    THEN id \in {0, IndexOf(last.classes_, "Other") - 1}
    ELSE id = 0

\* C4 amended: on a trained predictor a location that matches no keyword
\* does not make the call raise; it is classified Other and a plan is
\* returned; its id is 0 when the encoder was not fitted on Other, and
\* otherwise 0 or the id the encoder gives Other.
C4_NoKeywordIsOther ==
    TrainedCall =>
        /\ MatchesNoKeyword(last.args.pickup_location)
              => (PlanReturned /\ last.pickup_zone = "Other" /\ OtherId(last.X_pred[1]))
        /\ MatchesNoKeyword(last.args.dropoff_location)
              => (PlanReturned /\ last.dropoff_zone = "Other" /\ OtherId(last.X_pred[2]))

\* a plan for a pickup that matches no keyword, by an encoder without Other
C4_Witness ==
    /\ PlanReturned
    /\ MatchesNoKeyword(last.args.pickup_location)
    /\ "Other" \notin Range(last.classes_)
    /\ last.X_pred[1] = 0
    /\ last.args.pickup_location = MoodyCenter
    /\ last.args.dropoff_location = AirportABIA
    /\ model.y = <<27420>>

TrainingId(zone) ==
    IF zone \in Range(last.classes_)
    THEN IndexOf(last.classes_, zone) - 1
    ELSE 0

\* C5: each location is encoded on its own: a zone the encoder was fitted on
\* gets its id, a zone it was not fitted on gets 0, whatever the other
\* location's zone is.
C5_EachLocationEncodedAlone ==
    PlanReturned =>
        /\ last.X_pred[1] = TrainingId(last.pickup_zone)
        /\ last.X_pred[2] = TrainingId(last.dropoff_zone)

\* s is an hour of one or two digits (0 to 23), then sep, then a minute of
\* one or two digits (0 to 59), and nothing else
MatchesTime(s, sep) ==
    \E hl \in {1, 2}, ml \in {1, 2} :
        /\ Len(s) = hl + Len(sep) + ml
        /\ \A i \in 1..hl : IsDigit(s[i])
        /\ Number(s, 1, hl) <= 23
        /\ SubSeq(s, hl + 1, hl + Len(sep)) = sep
        /\ \A i \in (hl + Len(sep) + 1)..Len(s) : IsDigit(s[i])
        /\ Number(s, hl + Len(sep) + 1, ml) <= 59

AcceptedFormat(s) == MatchesTime(s, <<":">>) \/ MatchesTime(s, <<>>)

BufferComputed == last.op = "buffer" \/ PlanReturned

\* C7: the buffer is 10, plus 15 when the arrival hour is one of 7, 8, 9, 17,
\* 18, 19, plus 5 when the arrival day is Saturday or Sunday, plus
\* 2 * (group_size - 1).
C7_BufferFormula ==
    BufferComputed =>
        last.buffer_minutes =
            10
            + (IF last.arrival_dt.hour \in {7, 8, 9, 17, 18, 19} THEN 15 ELSE 0)
            + (IF last.arrival_dt.weekday \in {5, 6} THEN 5 ELSE 0)
            + 2 * (last.args.group_size - 1)

\* the buffer of a Sunday arrival at 19:59 for a group of two: 10 + 15 + 5 + 2
C7_Witness ==
    /\ last.op = "buffer"
    /\ last.arrival_dt = [weekday |-> 6, hour |-> 19, minute |-> 59]
    /\ last.args.group_size = 2
    /\ last.buffer_minutes = 32

\* the minute of the day a clock time HH:MM names
ClockMinutes(hhmm) == Number(hhmm, 1, 2) * 60 + Number(hhmm, 4, 2)

\* C8: the reported departure time plus the reported travel minutes plus the
\* reported buffer minutes is the arrival time, as clock times modulo a day.
C8_RoundTrip ==
    PlanReturned =>
        (ClockMinutes(last.plan.departure_time) + last.plan.travel_time
            + last.plan.buffer_time) % 1440
        = last.arrival_dt.hour * 60 + last.arrival_dt.minute

\* C9: the reported total is the reported travel time plus the reported
\* buffer time.
C9_TotalIsSum ==
    PlanReturned =>
        last.plan.total_time = last.plan.travel_time + last.plan.buffer_time

\* C10: a predict_departure_time call on a trained predictor leaves
\* is_trained, the encoder and the fitted model as they were, whether it
\* returns a plan or raises.
C10_PredictChangesNothing ==
    [][(is_trained /\ last'.op = "predict")
          => /\ is_trained' = is_trained
             /\ location_encoder' = location_encoder
             /\ model' = model]_vars

\* a plan was returned for a pickup zone the encoder was not fitted on
C10_Witness ==
    /\ PlanReturned
    /\ is_trained
    /\ last.pickup_zone \notin Range(location_encoder.classes_)
    /\ last.args.pickup_location = UniversityCampus
    /\ last.args.dropoff_location = AirportABIA
    /\ last.args.arrival_time = Str(<<"2","1",":","0","0">>)
    /\ last.args.group_size = 1
    /\ location_encoder.classes_ = <<"Airport">>
    /\ model.y = <<27420>>

\* C11: train leaves the corpus it is given as it was: after the call the
\* caller's frame has the same columns and the same values in every row.
C11_TrainLeavesCorpus ==
    (last.op = "train" /\ last.raised = "none") => last.df = last.args.df


\* the table's entries for the two zones in either order
TableEntries(zone_a, zone_b) ==
    {key \in DOMAIN distances : {key[1], key[2]} = {zone_a, zone_b}}

\* C12: the distance of two zones is the same in both orders, it is the table
\* value when the pair is in the table in either order and 5 otherwise, and a
\* repeated call answers what the first call answered, whatever the predictor
\* was trained on in between.
C12_DistanceOfUnorderedPair ==
    last.op = "distance" =>
        /\ last.distance = last.exchanged
        /\ \A key \in TableEntries(last.pickup_zone, last.dropoff_zone) :
                last.distance = distances[key]
        /\ TableEntries(last.pickup_zone, last.dropoff_zone) = {}
                => last.distance = 5
        /\ last.distance = last.first

\* the distance of (Airport, University), which the table has as (University,
\* Airport), asked a second time on a predictor trained in between
C12_Witness ==
    /\ last.op = "distance"
    /\ last.pickup_zone = "Airport"
    /\ last.dropoff_zone = "University"
    /\ last.distance = 12
    /\ last.asks = 2
    /\ is_trained
    /\ location_encoder.classes_ = <<"Airport">>
    /\ model.y = <<27420>>


\* C13: for the same arrival time the buffer of a larger group is at least
\* the buffer of a smaller group.
C13_BufferGrowsWithGroup ==
    (last.op = "buffer" /\ "smaller" \in DOMAIN last) =>
        (/\ last.smaller.group_size < last.args.group_size
         /\ last.buffer_minutes >= last.smaller.buffer_minutes)

\* a Saturday rush-hour buffer for a group of three after that of one rider
C13_Witness ==
    /\ last.op = "buffer"
    /\ "smaller" \in DOMAIN last
    /\ last.arrival_dt.weekday = 5
    /\ last.arrival_dt.hour = 17
    /\ last.smaller = [group_size |-> 1, buffer_minutes |-> 30]
    /\ last.args.group_size = 3
    /\ last.buffer_minutes = 34

RushHours == {7, 8, 9, 17, 18, 19}

\* C14: at an arrival hour of 7, 8, 9, 17, 18 or 19 the buffer is at least 25;
\* at every other hour of a day that is not Saturday or Sunday it is exactly
\* 10 + 2 * (group_size - 1).
C14_RushAtLeast25 ==
    last.op = "buffer" =>
        /\ last.arrival_dt.hour \in RushHours => last.buffer_minutes >= 25
        /\ (last.arrival_dt.hour \notin RushHours /\ last.arrival_dt.weekday < 5)
                => last.buffer_minutes = 10 + 2 * (last.args.group_size - 1)

\* the smallest rush-hour buffer: one rider on a Monday at 9:59
C14_Witness ==
    /\ last.op = "buffer"
    /\ last.arrival_dt = [weekday |-> 0, hour |-> 9, minute |-> 59]
    /\ last.args.group_size = 1
    /\ last.buffer_minutes = 25


\* C15: the label of a row is distance_estimate * 3 + 15 minutes held between
\* 15 and 45, with distance_estimate = (|lat_diff| + |lon_diff|) * 69, so it
\* is never below 15 and never above 45 (values in 1/1000).
C15_LabelIsClamped ==
    last.op = "duration" =>
        LET lat_diff == last.row.lat2 - last.row.lat1
            lon_diff == last.row.lon2 - last.row.lon1
            miles    == ((IF lat_diff < 0 THEN -lat_diff ELSE lat_diff)
                         + (IF lon_diff < 0 THEN -lon_diff ELSE lon_diff)) * 69
            minutes  == miles * 3 + 15000
        IN  /\ last.distance_estimate = miles
            /\ minutes < 15000 => last.trip_duration = 15000
            /\ minutes > 45000 => last.trip_duration = 45000
            /\ (15000 <= minutes /\ minutes <= 45000) => last.trip_duration = minutes
            /\ 15000 <= last.trip_duration
            /\ last.trip_duration <= 45000

\* the label of the farthest pair of coordinates, held at 45 minutes
C15_Witness ==
    /\ last.op = "duration"
    /\ last.row.lat1 = 30194 /\ last.row.lon1 = -97670
    /\ last.row.lat2 = 30339 /\ last.row.lon2 = -97851
    /\ last.distance_estimate = 22494
    /\ last.trip_duration = 45000


\* what the method hands back and the values it computed on the way
ResultFields ==
    {"raised", "returned", "arrival_dt", "pickup_zone", "dropoff_zone", "X_pred",
     "predicted_duration", "buffer_minutes", "plan"}

\* the call run alone on the predictor as it was when the call was entered,
\* the forest answering for the same features what it answered in the call
RunAlone(call) ==
    predict_departure_time(call.self0, call.args.pickup_location,
                           call.args.dropoff_location, call.args.arrival_time,
                           call.args.group_size, call.predicted_duration)

\* C16: while no train call runs, interleaved predict_departure_time calls on
\* a trained predictor each end as they would when run alone, and no step of
\* a call changes is_trained, the encoder or the model.
C16_InterleavedAsAlone ==
    /\ [](\A c \in Callers :
            (calls[c].pc = "done" /\ calls[c].self0.is_trained)
                => \A f \in ResultFields : calls[c][f] = RunAlone(calls[c])[f])
    /\ [][(calls' # calls)
            => (/\ is_trained' = is_trained
                /\ location_encoder' = location_encoder
                /\ model' = model)]_vars

\* caller 1 has its plan while the call of caller 2, entered on the same
\* trained predictor with other arguments, is between its two transforms
C16_Witness ==
    /\ is_trained
    /\ calls[1].pc = "done"
    /\ calls[1].returned = "plan"
    /\ calls[1].pickup_zone = "Other"
    /\ calls[1].predicted_duration = 45000
    /\ calls[2].pc = "line76"
    /\ calls[2].args # calls[1].args
    /\ calls[2].pickup_zone = "Airport"
    /\ location_encoder.classes_ = <<"Airport", "Other">>
    /\ model.y = <<27420, 45000>>


\* the call of the example: University Campus to the airport, to arrive at
\* 21:00, one rider
ExampleCall(group_size) ==
    [pickup_location |-> UniversityCampus, dropoff_location |-> AirportABIA,
     arrival_time |-> Str(<<"2","1",":","0","0">>), group_size |-> group_size]

\* C17: for arrival "21:00", pickup "University Campus", dropoff
\* "Austin-Bergstrom International Airport" and one rider on a trained
\* predictor whose model predicts 45 minutes, the pickup zone is University,
\* the dropoff zone is Airport, the distance feature is 12, the buffer is 10
\* and the departure time is "20:05".
C17_ExampleDeparture2005 ==
    (/\ PlanReturned
     /\ last.args = ExampleCall(1)
     /\ last.predicted_duration = 45000)
        => /\ last.pickup_zone = "University"
           /\ last.dropoff_zone = "Airport"
           /\ last.X_pred[6] = 12
           /\ last.buffer_minutes = 10
           /\ last.plan.departure_time = <<"2","0",":","0","5">>

\* the example call has returned a plan on a forest that answered 45 minutes
C17_Witness ==
    /\ PlanReturned
    /\ last.args = ExampleCall(1)
    /\ last.predicted_duration = 45000
    /\ last.plan.travel_time = 45
    /\ location_encoder.classes_ = <<"Airport", "Other">>
    /\ model.y = <<27420, 45000>>


\* a call for one rider that returned a plan, followed by the same call for
\* five riders to which the forest answered the same duration
OneThenFive ==
    /\ PlanReturned
    /\ last.args.group_size = 1
    /\ last'.op = "predict"
    /\ last'.returned = "plan"
    /\ last'.args = [last.args EXCEPT !.group_size = 5]
    /\ last'.predicted_duration = last.predicted_duration

EightMinutesEarlier ==
    ClockMinutes(last'.plan.departure_time)
        = (ClockMinutes(last.plan.departure_time) + 1440 - 8) % 1440

\* C18 as stated: of two calls that differ only in the group size, 1 and 5,
\* and get the same predicted duration, the one for five riders has the
\* buffer 18 and a departure time exactly 8 minutes earlier.
C18_FiveRidersBuffer18 ==
    [][OneThenFive => (last'.buffer_minutes = 18 /\ EightMinutesEarlier)]_vars

\* C18 amended: of two such calls the one for five riders has a buffer 8
\* minutes longer and a departure time exactly 8 minutes earlier (as clock
\* times); its buffer is 18 when the arrival hour is none of 7, 8, 9, 17, 18,
\* 19 and the arrival day is not Saturday or Sunday.
C18_FiveRidersEightEarlier ==
    [][OneThenFive =>
          /\ last'.buffer_minutes = last.buffer_minutes + 8
          /\ EightMinutesEarlier
          /\ (last'.arrival_dt.hour \notin RushHours /\ last'.arrival_dt.weekday < 5)
                => last'.buffer_minutes = 18]_vars

\* the example call for five riders: buffer 18, departure 19:57 for a
\* predicted duration of 45 minutes
C18_Witness ==
    /\ PlanReturned
    /\ last.args = ExampleCall(5)
    /\ last.predicted_duration = 45000
    /\ last.buffer_minutes = 18
    /\ last.plan.departure_time = <<"1","9",":","5","7">>
    /\ location_encoder.classes_ = <<"Airport", "Other">>
    /\ model.y = <<27420, 45000>>


\* C19: after data with n rows is assigned and _preprocess_data has run,
\* processed_data is set and get_trip_statistics returns a dict whose
\* total_trips is n, whichever of the optional columns the data has.
C19_TotalTripsIsRowCount ==
    (last.op = "get_trip_statistics" /\ last.preprocessed) =>
        /\ ~processed_data.none
        /\ last.raised = "none"
        /\ "total_trips" \in last.returned.keys
        /\ last.returned.total_trips = len(data)


\* the rules in their order: a label and the keywords that give it
Rules ==
    <<[label |-> "Airport", keywords |-> {kw_airport, kw_aus}],
      [label |-> "University", keywords |-> {kw_university, kw_campus, kw_23rd}],
      [label |-> "West Campus", keywords |-> {kw_west_campus, kw_w_23rd}],
      [label |-> "Downtown", keywords |-> {kw_downtown, kw_6th, kw_market}],
      [label |-> "East Austin", keywords |-> {kw_east, kw_e_6th}],
      [label |-> "South Austin", keywords |-> {kw_south, kw_s_congress}],
      [label |-> "North Austin", keywords |-> {kw_north, kw_n_university}]>>

RuleMatches(i, address) ==
    \E k \in Rules[i].keywords : Contains(lower(address), k)

FirstMatch(address) ==
    IF address = None THEN "Unknown"
    ELSE IF \A i \in 1..Len(Rules) : ~RuleMatches(i, address) THEN "Other"
    ELSE Rules[Min({i \in 1..Len(Rules) : RuleMatches(i, address)})].label

\* C20: the zone of an address is Unknown when the address is missing,
\* otherwise the label of the first rule, in the order Airport, University,
\* West Campus, Downtown, East Austin, South Austin, North Austin, that has a
\* keyword in the lower-cased address, and Other when no rule has one;
\* training and prediction get the same zone for the address.
C20_FirstMatchWins ==
    last.op = "zone" =>
        /\ last.zone = FirstMatch(last.address)
        /\ last.training_zone = last.zone
        /\ last.pickup_zone = last.zone
        /\ last.dropoff_zone = last.zone

\* "West Campus" matches the University rule and the West Campus rule; the
\* University rule comes first
C20_Witness ==
    /\ last.op = "zone"
    /\ last.address = <<"W","e","s","t"," ","C","a","m","p","u","s">>
    /\ RuleMatches(2, last.address)
    /\ RuleMatches(3, last.address)
    /\ last.zone = "University"
    /\ last.training_zone = "University"
    /\ last.pickup_zone = "University"


\* the arrival time in minutes since midnight
ArrivalMinutes == last.arrival_dt.hour * 60 + last.arrival_dt.minute

\* the predicted duration and the buffer together are longer than the time
\* since midnight at the arrival time (in 1/1000 minute)
DepartsDayBefore ==
    /\ PlanReturned
    /\ last.predicted_duration + last.buffer_minutes * 1000 > ArrivalMinutes * 1000

\* the whole minutes from the midnight that starts the previous day to the
\* departure
MinuteOfPreviousDay ==
    (1440 * 1000 + ArrivalMinutes * 1000
        - last.predicted_duration - last.buffer_minutes * 1000) \div 1000

\* C21: when the predicted duration plus the buffer is more than the minutes
\* since midnight at the arrival time, the call does not raise and returns as
\* departure the clock time HH:MM of the previous day, hour 0..23 and minute
\* 0..59.
C21_DepartureWrapsToPreviousDay ==
    DepartsDayBefore =>
        /\ last.raised = "none"
        /\ Len(last.plan.departure_time) = 5
        /\ last.plan.departure_time[3] = ":"
        /\ Number(last.plan.departure_time, 1, 2) \in 0..23
        /\ Number(last.plan.departure_time, 4, 2) \in 0..59
        /\ ClockMinutes(last.plan.departure_time) = MinuteOfPreviousDay

\* arrival at 00:10 with 27.42 minutes of travel and 10 of buffer: 23:32
C21_Witness ==
    /\ DepartsDayBefore
    /\ last.args.arrival_time = Str(<<"0","0",":","1","0">>)
    /\ last.predicted_duration = 27420
    /\ last.plan.departure_time = <<"2","3",":","3","2">>
    /\ model.y = <<27420>>
    /\ location_encoder.classes_ = <<"Airport">>


\* the call was given its arrival time as a string and returned a plan
StringArrivalPlanned == PlanReturned /\ last.args.arrival_time.type = "str"

\* C22: an arrival time given as a string carries no date, so the weekday of
\* the model feature and of the buffer is 0 (Monday): the weekend 5 is never
\* added, and the buffer is 10 or 25 plus 2 * (group_size - 1).
C22_StringArrivalIsMonday ==
    StringArrivalPlanned =>
        /\ last.arrival_dt.weekday = 0
        /\ last.X_pred[4] = 0
        /\ last.buffer_minutes - 2 * (last.args.group_size - 1) \in {10, 25}
        /\ last.buffer_minutes - 2 * (last.args.group_size - 1) = 25
               <=> last.arrival_dt.hour \in RushHours

\* "08:30" for three riders: Monday, buffer 25 + 4
C22_Witness ==
    /\ StringArrivalPlanned
    /\ last.args.arrival_time.value = <<"0","8",":","3","0">>
    /\ last.args.group_size = 3
    /\ last.buffer_minutes = 29
    /\ last.X_pred[4] = 0
    /\ last.predicted_duration = 27420
    /\ model.y = <<27420>>
    /\ location_encoder.classes_ = <<"Airport">>


\* C23: _extract_zone never returns 'West Campus'. Each keyword of the West
\* Campus rule contains a keyword of the University rule before it, so an
\* address with 'west campus' or 'w 23rd' is University or Airport; the zone
\* never enters the encoding, and never reaches the distance table as the
\* pickup or the dropoff zone.
C23_WestCampusNeverReturned ==
    /\ Contains(kw_west_campus, kw_campus)
    /\ Contains(kw_w_23rd, kw_23rd)
    /\ last.op = "zone" =>
        /\ last.zone # "West Campus"
        /\ "West Campus" \notin Range(last.classes_)
        /\ last.pickup_zone # "West Campus"
        /\ last.dropoff_zone # "West Campus"
        /\ (/\ last.address # None
            /\ \/ Contains(lower(last.address), <<"w","e","s","t"," ","c","a","m","p","u","s">>)
               \/ Contains(lower(last.address), <<"w"," ","2","3","r","d">>))
            => /\ last.zone \in {"University", "Airport"}
               /\ last.pickup_zone = last.zone
               /\ last.dropoff_zone = last.zone
               /\ last.classes_ = <<last.zone>>

\* the address "W 23rd" is classified, trained on and predicted for as
\* University
C23_Witness ==
    /\ last.op = "zone"
    /\ last.address = <<"W"," ","2","3","r","d">>
    /\ last.zone = "University"
    /\ last.classes_ = <<"University">>
    /\ last.pickup_zone = "University"

\* the lower-cased address contains 'aus'
ContainsAus ==
    /\ last.address # None
    /\ Contains(lower(last.address), <<"a","u","s">>)

\* C24: every address whose lower-cased text contains 'aus', as every address
\* with the city name 'Austin' does, is classified as 'Airport' whatever other
\* keywords it contains.
C24_AusIsAirport ==
    (last.op = "zone" /\ ContainsAus) =>
        /\ last.zone = "Airport"
        /\ last.training_zone = "Airport"
        /\ last.pickup_zone = "Airport"
        /\ last.dropoff_zone = "Airport"

\* "University Austin" is Airport
C24_Witness ==
    /\ last.op = "zone"
    /\ last.address = <<"U","n","i","v","e","r","s","i","t","y"," ","A","u","s","t","i","n">>
    /\ ContainsAus
    /\ last.zone = "Airport"
    /\ last.pickup_zone = "Airport"


\* C25: while is_trained is true and no train call is running, the encoding
\* and the fitted model come from the same corpus; in particular a train call
\* that fails on a trained predictor leaves the earlier encoding and the
\* earlier model both in place.
C25_FailedTrainKeepsEncoding ==
    [][(is_trained /\ last'.op = "train" /\ last'.raised # "none")
          => (location_encoder' = location_encoder /\ model' = model)]_vars


\* neither "%H:%M" nor "%H%M" reads the arrival time
Unparseable(arrival_time) ==
    /\ arrival_time.type = "str"
    /\ strptime(arrival_time.value, "%H:%M").raised # "none"
    /\ strptime(arrival_time.value, "%H%M").raised # "none"

\* caller c's call comes to this line in the step
ComesTo(c, line) == calls'[c].pc = line /\ calls[c].pc # line

NotTrainedMessage == "Model not trained. Please train with data first."

\* C26: predict_departure_time checks in a fixed order: the trained check,
\* then the parsing of the arrival time, then the zones and the model. On an
\* untrained predictor the call ends with the untrained outcome whatever the
\* arrival time is, never with a parse error; on a trained predictor an
\* unparseable time raises before the zones are encoded and the model is asked.
C26_ChecksInOrder ==
    [][\A c \in Callers :
        /\ ComesTo(c, "line61") => (calls[c].pc = "line57" /\ is_trained)
        /\ ComesTo(c, "line75") =>
              /\ calls[c].pc = "line61"
              /\ ~Unparseable(calls[c].args.arrival_time)
        /\ ComesTo(c, "line76") => calls[c].pc = "line75"
        /\ ComesTo(c, "line83") => calls[c].pc \in {"line75", "line76"}
        /\ ComesTo(c, "line92") =>
              /\ calls[c].pc = "line83"
              /\ calls[c].X_pred = <<>>
              /\ calls[c].predicted_duration = -1
        /\ ComesTo(c, "done") =>
              \/ /\ calls[c].pc = "line57"
                 /\ ~is_trained
                 /\ calls'[c].raised = "none"
                 /\ calls'[c].returned = NotTrainedMessage
              \/ /\ calls[c].pc = "line61"
                 /\ Unparseable(calls[c].args.arrival_time)
                 /\ calls'[c].raised = "ValueError"
                 /\ calls'[c].returned = "nothing"
                 /\ calls'[c].pickup_encoded = -1
                 /\ calls'[c].X_pred = <<>>
                 /\ calls'[c].predicted_duration = -1
              \/ /\ calls[c].pc = "line92"
                 /\ calls'[c].raised = "none"
                 /\ calls'[c].returned = "plan"
        /\ (calls[c].pc = "line57" /\ ~is_trained /\ calls'[c].pc # "line57")
              => calls'[c].pc = "done"
        /\ (/\ calls[c].pc = "line61"
            /\ Unparseable(calls[c].args.arrival_time)
            /\ calls'[c].pc # "line61")
              => calls'[c].pc = "done"
      ]_vars

\* the call with arrival time "25:00" on the untrained predictor has ended
\* with the untrained outcome
C26_Witness ==
    /\ ~is_trained
    /\ location_encoder = NewLabelEncoder
    /\ calls[2] = IdleCall
    /\ calls[1].pc = "done"
    /\ calls[1].self0.location_encoder = NewLabelEncoder
    /\ calls[1].args.arrival_time = Str(<<"2","5",":","0","0">>)
    /\ Unparseable(calls[1].args.arrival_time)
    /\ calls[1].raised = "none"
    /\ calls[1].returned = NotTrainedMessage


\* the pickup zones of the corpus, row by row
PickupZones(frame) ==
    [i \in 1..Len(frame.rows) |-> extract_zone(frame.rows[i].pickup)]

\* the sequence of names is in Python's sorted order without repetition
StrictlySorted(names) ==
    \A i, j \in 1..Len(names) :
        i < j => IndexOf(ZoneNamesSorted, names[i]) < IndexOf(ZoneNamesSorted, names[j])

\* the features the call would have computed with this pickup zone
FeaturesWithPickup(zone) ==
    LET enc == encode_zones([fitted |-> TRUE, classes_ |-> last.classes_],
                            zone, last.dropoff_zone)
    IN  <<enc.pickup_encoded, enc.dropoff_encoded, last.arrival_dt.hour,
          last.arrival_dt.weekday, last.args.group_size,
          estimate_distance_from_zones(zone, last.dropoff_zone)>>

UnseenPickup == PlanReturned /\ last.pickup_zone \notin Range(last.classes_)

UnseenDropoff == PlanReturned /\ last.dropoff_zone \notin Range(last.classes_)

\* C27 as stated: a call whose pickup zone is unseen has the feature vector of
\* the same call with the alphabetically first trained zone as pickup.
C27_UnseenZoneSameFeatures ==
    UnseenPickup => last.X_pred = FeaturesWithPickup(last.classes_[1])

\* C27: after train the encoding gives the ids 0..n-1 one-to-one to the n
\* distinct pickup zones of the corpus in sorted order; the fallback id 0 of
\* an unseen zone is the id of the alphabetically first trained zone, and an
\* unseen zone has that zone's id in the feature vector (the distance feature,
\* taken from the zone names, is not said to be the same).
C27_IdsInSortedOrder ==
    /\ (last.op = "train" /\ last.raised = "none") =>
          LET zones == PickupZones(last.args.df)
              n     == Cardinality(Range(zones))
          IN  /\ Range(location_encoder.classes_) = Range(zones)
              /\ Len(location_encoder.classes_) = n
              /\ StrictlySorted(location_encoder.classes_)
              /\ \A i \in 1..Len(zones) :
                    /\ model.X[i][1] \in 0..(n - 1)
                    /\ location_encoder.classes_[model.X[i][1] + 1] = zones[i]
    /\ UnseenPickup =>
          /\ Len(last.classes_) >= 1
          /\ StrictlySorted(last.classes_)
          /\ last.X_pred[1] = 0
          /\ last.X_pred[1] = FeaturesWithPickup(last.classes_[1])[1]
    /\ UnseenDropoff => last.X_pred[2] = 0

\* trained on the zones Airport and Other; the pickup zone University is
\* unseen and gets the id 0 of Airport
C27_Witness ==
    /\ UnseenPickup
    /\ last.classes_ = <<"Airport", "Other">>
    /\ last.pickup_zone = "University"
    /\ last.dropoff_zone = "Airport"
    /\ last.X_pred[1] = 0
    /\ last.args.arrival_time = Str(<<"2","1",":","0","0">>)
    /\ last.args.group_size = 1
    /\ last.predicted_duration = 27420
    /\ model.y = <<27420, 45000>>


\* C28: over the smart_answer calls that share one predictor, train is called
\* exactly when is_trained is false, so never again once a train has
\* succeeded; every predict_departure_time call that smart_answer makes finds
\* the predictor trained; and an exception raised by the prediction does not
\* leave smart_answer, which returns an 'Error in prediction' answer.
C28_TrainOnlyWhenUntrained ==
    [][last'.op = "smart_answer" =>
          /\ last'.train_called <=> ~is_trained
          /\ (last'.train_called /\ last'.train_raised = "none") => is_trained'
          /\ is_trained => (is_trained' /\ ~last'.train_called)
          /\ last'.prediction.called =>
                /\ last'.prediction.was_trained
                /\ is_trained'
                /\ last'.raised = "none"
          /\ (last'.prediction.called /\ last'.prediction.raised # "none") =>
                /\ last'.raised = "none"
                /\ last'.returned = "Error in prediction"
      ]_vars

\* on the predictor an earlier call has trained, the question with the time
\* 25:00 makes predict_departure_time raise; no train call is made and the
\* answer is 'Error in prediction'
C28_Witness ==
    /\ last.op = "smart_answer"
    /\ last.question = QuestionAirport2500
    /\ last.was_trained
    /\ ~last.train_called
    /\ last.prediction.called
    /\ last.prediction.was_trained
    /\ last.prediction.raised = "ValueError"
    /\ last.raised = "none"
    /\ last.returned = "Error in prediction"
    /\ model.y = <<27420>>
    /\ location_encoder.classes_ = <<"Airport">>

\* a letter of the lower-cased question
IsLetter(c) == \E i \in 1..26 : LowerCase[i] = c

\* 'am' or 'pm' stands in the question as a word of its own or behind a number
HasMarkerWord(q) ==
    \E i \in 1..Len(q) :
        /\ StartsAt(q, i, kw_am) \/ StartsAt(q, i, kw_pm)
        /\ ~IsLetter(CharAt(q, i - 1))
        /\ ~IsLetter(CharAt(q, i + 2))

\* the first time written HH:MM in the question
WrittenTime(question) == re_search(time_pattern_1(lower(question)))

\* the question has a 24-hour time written HH:MM and no AM/PM marker word, and
\* smart_answer called predict_departure_time
ClockTimeAsked ==
    /\ last.op = "smart_answer"
    /\ last.prediction.called
    /\ WrittenTime(last.question).matched
    /\ int(WrittenTime(last.question).group1) \in 0..23
    /\ int(WrittenTime(last.question).group2) \in 0..59
    /\ ~HasMarkerWord(lower(last.question))

\* C29: for a question with a 24-hour time written HH:MM and no AM/PM marker
\* word, the arrival time smart_answer passes to predict_departure_time has
\* that hour and that minute, whatever other words the question contains.
C29_TimePassedAsWritten ==
    ClockTimeAsked =>
        LET arrival_time == last.prediction.args.arrival_time.value
        IN  /\ Len(arrival_time) = 5
            /\ arrival_time[3] = ":"
            /\ int(SubSeq(arrival_time, 1, 2)) = int(WrittenTime(last.question).group1)
            /\ int(SubSeq(arrival_time, 4, 5)) = int(WrittenTime(last.question).group2)


\* C30: load_data never raises; when it fails it returns False and leaves
\* data and processed_data as they were before the call, so processed_data is
\* always the processed form of the current data.
C30_FailedLoadChangesNothing ==
    last.op = "load_data" =>
        /\ last.raised = "none"
        /\ last.returned = FALSE =>
              /\ data = last.before.data
              /\ processed_data = last.before.processed_data
        /\ processed_data = data


====
